---------------------------- MODULE Spec2Model ----------------------------
(***************************************************************************)
(* A model of luar, the Go <-> Lua binding: the value conversion engine    *)
(* (GoToLua / LuaToGo with their cycle trackers), slice proxies, the       *)
(* wrapper of Go functions, and channel proxies with the GoLua driver.     *)
(*                                                                         *)
(* Host (Go) values and script (Lua) values are records tagged by kind.    *)
(* Host memory is a sequence of backing arrays (goMem): a slice value is   *)
(* a header (array address, length) and a pointer is the address of a one  *)
(* element array.  Lua tables live in a table heap (luaTabs): a table      *)
(* value is the index of its table, which is what lua_topointer tells      *)
(* apart.                                                                  *)
(***************************************************************************)
EXTENDS Integers, Sequences, FiniteSets, TLC

VARIABLES
    \* ---- conversion scenario (GoToLua / LuaToGo) ----
    goMem,      \* host memory: address -> backing array (sequence of Go values)
    goMaps,     \* host maps: map id -> [string -> Go value]
    luaTabs,    \* Lua table heap: table id -> [arr, hash]
    cpc,        \* position of the conversion scenario
    origin,     \* "host": the Lua value came from GoToLua; "script": built by script
    input,      \* the Go value handed to GoToLua
    luaVal,     \* the Lua value on the stack
    target,     \* the Go type LuaToGo converts into
    output,     \* the Go variable LuaToGo filled
    status,     \* the error LuaToGo returned
    handle,     \* the Lua value a script got for the host slice: proxy or copy
    hInit,      \* the elements of the host slice when it was pushed
    writes,     \* the assignments handle[key] = val the script made so far
    raised,     \* the error of the script's last assignment ("nil" for none)
    fnSig,      \* the signature of the wrapped host function
    argsT,      \* the parameter types the adapter's closure holds
    calls,      \* how many times the script invoked the adapter
    lastCall,   \* the last invocation: Lua arguments, host fault, recover() value
    lastOutcome, \* how the last invocation ended
    build,      \* which channel code is built in: "inline" or "driver"
    chT,        \* the element type of the host channel
    pc,         \* the position of every host task
    job,        \* the channel operation the script of every task makes
    inflight,   \* the Go value a task is sending or has received
    got,        \* the Lua value a receive returned to the script
    performed,  \* the channel operations made so far, and who made them
    operator,   \* the operator a script applies to two values, one a proxy
    operands,   \* the two Lua values the operator is applied to
    opc,        \* whether the operator's metamethod ran: "ready" or "done"
    opResult,   \* what the metamethod left: a Lua value, a script error, a panic
    proxyMap,   \* the handle table: userdata address -> the host value it anchors
    proxymu,    \* the interpreter state holding the table's mutex, or "free"
    userdata,   \* the userdata memory: address -> owner state, stage, held value
    gpc,        \* the position of every state inside makeValueProxy or proxy__gc
    lo,         \* the Lua value a LuaObject refers to, and its key/value pairs
    targets,    \* the types of the host variables given to Next for key and value
    luaStack,   \* the Lua stack of the state the LuaObject lives in
    ti,         \* the LuaTableIter: first, ref, err
    delivered,  \* the pairs the calls of Next delivered so far
    iterc       \* the position of the host's loop over Next

convVars == <<goMem, goMaps, luaTabs, cpc, origin, input, luaVal, target, output, status>>

proxyVars == <<handle, hInit, writes, raised>>

funcVars == <<fnSig, argsT, calls, lastCall, lastOutcome>>

chanVars == <<build, chT, pc, job, inflight, got, performed>>

opVars == <<operator, operands, opc, opResult>>

anchorVars == <<proxyMap, proxymu, userdata, gpc>>

iterVars == <<lo, targets, luaStack, ti, delivered, iterc>>

vars == <<convVars, proxyVars, funcVars, chanVars, opVars, anchorVars, iterVars>>

-----------------------------------------------------------------------------
(* Numbers.  A Lua number is a float64; the model keeps integer-valued      *)
(* numbers only.  TLC's integers are 32 bits wide, so a number x is kept as *)
(* two limbs, x = hi * Limb + lo with 0 <= lo < Limb, which reaches past    *)
(* 2^53, the first integer a float64 cannot hold exactly.                   *)

Limb == 2^27

Num(h, l) == [hi |-> h, lo |-> l]

\* The number x for a small TLC integer x (|x| < Limb).
Small(x) == IF x < 0 THEN Num(-1, x + Limb) ELSE Num(0, x)

\* -2^53 <= x <= 2^53: every such integer is a float64.
InFloatRange(x) ==
    /\ x.hi >= -(2^26)
    /\ \/ x.hi < 2^26
       \/ x.hi = 2^26 /\ x.lo = 0

\* float64(x) for an int64 x with |x| < 2^54: exact up to 2^53, beyond that
\* rounded to the nearest even integer, ties to the even mantissa (the
\* multiple of 4).
Float64OfInt(x) ==
    IF InFloatRange(x) \/ x.lo % 2 = 0 THEN x
    ELSE IF x.lo % 4 = 1 THEN Num(x.hi, x.lo - 1)
    ELSE IF x.lo + 1 = Limb THEN Num(x.hi + 1, 0)
    ELSE Num(x.hi, x.lo + 1)

\* int64(f), which truncates toward zero: the numbers of the model are
\* integer-valued and within the int64 range, so no digit is dropped.
IntOfFloat64(f) == f

-----------------------------------------------------------------------------
(* Go types and values, as reflect sees them.                               *)

BoolT    == [k |-> "bool", t |-> "bool"]
IntT     == [k |-> "int64", t |-> "int64"]
FloatT   == [k |-> "float64", t |-> "float64"]
StringT  == [k |-> "string", t |-> "string"]
IfaceT   == [k |-> "interface"]
NullType == [k |-> "int64", t |-> "NullT"]
SliceT(e) == [k |-> "slice", e |-> e]
PtrT(e)   == [k |-> "ptr", e |-> e]
MapT(e)   == [k |-> "map", e |-> e]      \* map[string]e

GBool(b)   == [k |-> "bool", t |-> "bool", b |-> b]
GInt(n)    == [k |-> "int64", t |-> "int64", n |-> n]
GFloat(n)  == [k |-> "float64", t |-> "float64", n |-> n]
GString(s) == [k |-> "string", t |-> "string", s |-> s]
\* A slice header: the address of its backing array (0 for a nil slice) and
\* its length.
GSlice(e, a, len) == [k |-> "slice", e |-> e, a |-> a, len |-> len]
\* A pointer: the address of a one-element array holding the pointee (0: nil).
GPtr(e, a) == [k |-> "ptr", e |-> e, a |-> a]
\* A map: the id of the map object in goMaps (0: nil).
GMap(e, m) == [k |-> "map", e |-> e, m |-> m]
\* An interface value: d holds the dynamic value, or nothing for nil.
GIface(d) == [k |-> "interface", d |-> d]
NilIface  == GIface(<<>>)
Box(v)    == GIface(<<v>>)
\* The zero reflect.Value (IsValid() is false).
Invalid == [k |-> "invalid"]

\* A struct field as reflect.StructField describes it: its name, its "lua"
\* tag ("" for none), whether the name is exported, and its type.
Field(name, tag, exported, typ) ==
    [name |-> name, tag |-> tag, exported |-> exported, typ |-> typ]

\* A struct type: its name, its fields in declaration order, and whether the
\* pointer to it has an Error() string method.
StructT(name, fields, isError) ==
    [k |-> "struct", t |-> name, fields |-> fields, isError |-> isError]

ArrayT(e, n) == [k |-> "array", e |-> e, n |-> n]
FuncT == [k |-> "func"]
ChanT(e) == [k |-> "chan", e |-> e]
UintptrT == [k |-> "uintptr", t |-> "uintptr"]

\* A struct value: its type and the values of its fields, in order.
GStruct(typ, vals) == [k |-> "struct", typ |-> typ, f |-> vals]
\* An array is a value: its elements are part of it.
GArray(e, elems) == [k |-> "array", e |-> e, elems |-> elems]
\* A func value (id 0: nil) and a channel (id 0: nil).
GFunc(id) == [k |-> "func", id |-> id]
GChan(e, id) == [k |-> "chan", e |-> e, id |-> id]
GUintptr(n) == [k |-> "uintptr", t |-> "uintptr", n |-> n]
\* A reflect.Value obtained through an unexported struct field: reflect
\* flags it read-only, Interface() and Set() on it panic.
RO(v) == [k |-> "ro", v |-> v]

TypeOf(v) ==
    CASE v.k \in {"bool", "int64", "float64", "string", "complex128", "uintptr"} ->
            [k |-> v.k, t |-> v.t]
      [] v.k = "slice" -> SliceT(v.e)
      [] v.k = "ptr" -> PtrT(v.e)
      [] v.k = "map" -> MapT(v.e)
      [] v.k = "struct" -> v.typ
      [] v.k = "array" -> ArrayT(v.e, Len(v.elems))
      [] v.k = "func" -> FuncT
      [] v.k = "chan" -> ChanT(v.e)
      [] OTHER -> IfaceT

\* reflect.Zero(t)
RECURSIVE Zero(_)
Zero(t) ==
    CASE t.k = "bool" -> [k |-> "bool", t |-> t.t, b |-> FALSE]
      [] t.k = "int64" -> [k |-> "int64", t |-> t.t, n |-> Small(0)]
      [] t.k = "float64" -> [k |-> "float64", t |-> t.t, n |-> Small(0)]
      [] t.k = "string" -> [k |-> "string", t |-> t.t, s |-> ""]
      [] t.k = "complex128" ->
            [k |-> "complex128", t |-> t.t, re |-> [num |-> 0, den |-> 1],
             im |-> [num |-> 0, den |-> 1]]
      [] t.k = "slice" -> GSlice(t.e, 0, 0)
      [] t.k = "ptr" -> GPtr(t.e, 0)
      [] t.k = "map" -> GMap(t.e, 0)
      [] t.k = "struct" -> GStruct(t, [i \in DOMAIN t.fields |-> Zero(t.fields[i].typ)])
      [] t.k = "array" -> GArray(t.e, [i \in 1..t.n |-> Zero(t.e)])
      [] t.k = "func" -> GFunc(0)
      [] t.k = "chan" -> GChan(t.e, 0)
      [] t.k = "uintptr" -> GUintptr(Small(0))
      [] OTHER -> NilIface

-----------------------------------------------------------------------------
(* Lua values.                                                              *)

LNil         == [k |-> "nil"]
LBool(b)     == [k |-> "boolean", b |-> b]
LNumber(n)   == [k |-> "number", n |-> n]
LString(s)   == [k |-> "string", s |-> s]
LTable(id)   == [k |-> "table", id |-> id]
\* A userdata made by makeValueProxy: the wrapped Go value and the name of
\* its metatable.
LProxy(mt, v) == [k |-> "userdata", mt |-> mt, v |-> v]
\* The Lua function PushGoFunction makes for a Go function.
LFunction(f) == [k |-> "function", f |-> f]

NewTable == [arr |-> <<>>, hash |-> <<>>]

-----------------------------------------------------------------------------
(* GoToLua: luar.go, the conversion of a Go value to a Lua value.  The      *)
(* operators thread a record st = [mem, maps, tabs, vis]: host memory and   *)
(* maps (read only here), the Lua table heap, and the visitor's registry    *)
(* table (Go pointer -> table already made for it).                         *)

\* luar.Null
GNull == [k |-> "int64", t |-> "NullT", n |-> Small(0)]

isNil(v) ==
    CASE v.k = "interface" -> v.d = <<>>
      [] v.k = "map" -> v.m = 0
      [] v.k = "ptr" -> v.a = 0
      [] v.k = "slice" -> v.a = 0
      [] v.k \in {"func", "chan"} -> v.id = 0
      [] OTHER -> FALSE

isNewType(v) == v.t # v.k

\* reflect's Value.Pointer() of a slice, map or pointer, as the registry key.
\* A slice gives the address of its first element, which is the address a
\* pointer to that element holds; nil values of every kind give 0.
Pointer(v) ==
    CASE v.k = "map" -> IF v.m = 0 THEN <<"nil", 0>> ELSE <<"map", v.m>>
      [] OTHER -> IF v.a = 0 THEN <<"nil", 0>> ELSE <<"mem", v.a>>

\* visitor.mark: registry[ptr] = the table on top of the stack.
mark(st, v, tid) ==
    [st EXCEPT !.vis = [p \in (DOMAIN st.vis) \cup {Pointer(v)} |->
                          IF p = Pointer(v) THEN tid ELSE st.vis[p]]]

\* visitor.push: whether a table is registered for the value.
visitedHas(st, v) == Pointer(v) \in DOMAIN st.vis

makeValueProxy(v, mt) == LProxy(mt, v)

\* Follow a chain of pointers down to a non-pointer; a nil pointer ends in
\* the invalid Value.
RECURSIVE FollowPtr(_, _)
FollowPtr(mem, v) ==
    IF v.k # "ptr" THEN v
    ELSE IF v.a = 0 THEN Invalid
    ELSE FollowPtr(mem, mem[v.a][1])

\* The keys of a map, in the order the conversion visits them.
RECURSIVE KeyOrder(_)
KeyOrder(S) ==
    IF S = {} THEN <<>>
    ELSE LET x == CHOOSE y \in S : TRUE IN <<x>> \o KeyOrder(S \ {x})

RECURSIVE goToLua(_, _, _)
RECURSIVE copySliceElems(_, _, _, _)
RECURSIVE copyMapElems(_, _, _, _)
RECURSIVE copyStructFields(_, _, _, _)

\* copySliceToTable with the Lua index starting at 0: the first element lands
\* outside the sequence.
copySliceToTableFromZero(st, v) ==
    LET tid == Len(st.tabs) + 1
        st1 == [st EXCEPT !.tabs = Append(@, NewTable)]
        st2 == mark(st1, v, tid)
        st3 == copySliceElems(st2, v, tid, 1)
    IN  [st |-> [st3 EXCEPT !.tabs[tid].arr = IF @ = <<>> THEN @ ELSE Tail(@)],
         val |-> LTable(tid)]

\* Also for arrays: vp is the array, or the pointer it was reached through.
copySliceToTable(st, vp) ==
    LET v   == FollowPtr(st.mem, vp)
        tid == Len(st.tabs) + 1
        st1 == [st EXCEPT !.tabs = Append(@, NewTable)]
        st2 == IF v.k = "slice" THEN mark(st1, v, tid)
               ELSE IF vp.k = "ptr" THEN mark(st1, vp, tid)
               ELSE st1
    IN  [st |-> copySliceElems(st2, v, tid, 1), val |-> LTable(tid)]

\* v.Len() and v.Index(i - 1) of a slice or an array.
ValueLen(v) == IF v.k = "array" THEN Len(v.elems) ELSE v.len

Index(mem, v, i) == IF v.k = "array" THEN v.elems[i] ELSE mem[v.a][i]

\* The loop of copySliceToTable with the elements converted in proxy mode.
RECURSIVE copySliceElemsProxify(_, _, _, _)
copySliceElemsProxify(st, v, tid, i) ==
    IF i > ValueLen(v) THEN st
    ELSE LET e   == Index(st.mem, v, i)
             val == IF isNil(e) THEN GNull ELSE e
             r   == goToLua(st, val, TRUE)
         IN  copySliceElemsProxify(
                 [r.st EXCEPT !.tabs[tid].arr = Append(@, r.val)], v, tid, i + 1)

copySliceElems(st, v, tid, i) ==
    IF i > ValueLen(v) THEN st
    ELSE LET e   == Index(st.mem, v, i)
             val == IF isNil(e) THEN GNull ELSE e
             r   == goToLua(st, val, FALSE)
         IN  copySliceElems(
                 [r.st EXCEPT !.tabs[tid].arr = Append(@, r.val)], v, tid, i + 1)

copyMapToTable(st, v) ==
    LET tid == Len(st.tabs) + 1
        st1 == [st EXCEPT !.tabs = Append(@, NewTable)]
        st2 == mark(st1, v, tid)
        \* v.MapKeys(): none for a nil map
        keys == IF v.m = 0 THEN {} ELSE DOMAIN st.maps[v.m]
    IN  [st |-> copyMapElems(st2, v, tid, KeyOrder(keys)),
         val |-> LTable(tid)]

\* SetTable with a nil value stores nothing.
copyMapElems(st, v, tid, keys) ==
    IF keys = <<>> THEN st
    ELSE LET key == keys[1]
             e   == st.maps[v.m][key]
             val == IF isNil(e) THEN GNull ELSE e
             r   == goToLua(st, val, FALSE)
             h   == r.st.tabs[tid].hash
             h2  == IF r.val = LNil THEN h
                    ELSE [x \in (DOMAIN h) \cup {key} |->
                            IF x = key THEN r.val ELSE h[x]]
         IN  copyMapElems([r.st EXCEPT !.tabs[tid].hash = h2], v, tid, Tail(keys))

\* copyStructToTable: every field of the struct, exported or not, is stored
\* under its tag, or under its name when it has no tag; a later field with
\* the same key overwrites an earlier one.  SetTable with a nil value stores
\* nothing.
copyStructToTable(st, vp) ==
    LET v   == FollowPtr(st.mem, vp)
        tid == Len(st.tabs) + 1
        st1 == [st EXCEPT !.tabs = Append(@, NewTable)]
        st2 == IF vp.k = "ptr" THEN mark(st1, vp, tid) ELSE st1
    IN  [st |-> copyStructFields(st2, v, tid, 1), val |-> LTable(tid)]

copyStructFields(st, v, tid, i) ==
    IF i > Len(v.typ.fields) THEN st
    ELSE LET field == v.typ.fields[i]
             key == IF field.tag # "" THEN field.tag ELSE field.name
             val == IF field.exported THEN v.f[i] ELSE RO(v.f[i])
             r   == goToLua(st, val, FALSE)
             h   == r.st.tabs[tid].hash
             h2  == IF r.val = LNil THEN h
                    ELSE [x \in (DOMAIN h) \cup {key} |->
                            IF x = key THEN r.val ELSE h[x]]
         IN  copyStructFields([r.st EXCEPT !.tabs[tid].hash = h2], v, tid, i + 1)

\* A panic of the host inside the conversion: nothing is pushed, the
\* visitor's state carries the panic value out.
Fault(st, msg) == [st |-> [st EXCEPT !.fault = msg], val |-> LNil]

goToLua(st, a, proxify) ==
    LET ro == a.k = "ro"
        a0 == IF ro THEN a.v ELSE a
        unboxed == IF a0.k = "interface" /\ a0.d # <<>> THEN a0.d[1] ELSE a0
        vp == unboxed
        v  == FollowPtr(st.mem, unboxed)
    IN  IF st.fault # "nil" THEN [st |-> st, val |-> LNil]
        ELSE IF ro /\ a0.k = "interface" /\ a0.d # <<>>
        THEN \* v.Interface() to unbox
             Fault(st, "reflect.Value.Interface: unexported field")
        ELSE IF v = Invalid THEN [st |-> st, val |-> LNil]
        ELSE IF ~ro /\ v = GNull
        THEN [st |-> st, val |-> makeValueProxy(v, "interfaceMT")]
        ELSE CASE v.k \in {"float64", "int64"} ->
                    IF proxify /\ isNewType(v)
                    THEN [st |-> st, val |-> makeValueProxy(vp, "numberMT")]
                    ELSE [st |-> st,
                          val |-> LNumber(IF v.k = "int64" THEN Float64OfInt(v.n)
                                          ELSE v.n)]
               [] v.k = "string" ->
                    IF proxify /\ isNewType(v)
                    THEN [st |-> st, val |-> makeValueProxy(vp, "stringMT")]
                    ELSE [st |-> st, val |-> LString(v.s)]
               [] v.k = "bool" ->
                    IF proxify /\ isNewType(v)
                    THEN [st |-> st, val |-> makeValueProxy(vp, "interfaceMT")]
                    ELSE [st |-> st, val |-> LBool(v.b)]
               [] v.k = "complex128" ->
                    [st |-> st, val |-> makeValueProxy(vp, "complexMT")]
               [] v.k = "array" ->
                    IF proxify /\ vp.k = "ptr"
                    THEN [st |-> st, val |-> makeValueProxy(vp, "sliceMT")]
                    ELSE IF vp.k = "ptr" /\ visitedHas(st, vp)
                    THEN [st |-> st, val |-> LTable(st.vis[Pointer(vp)])]
                    ELSE copySliceToTable(st, vp)
               [] v.k = "slice" ->
                    IF proxify
                    THEN [st |-> st, val |-> makeValueProxy(vp, "sliceMT")]
                    ELSE IF visitedHas(st, v)
                    THEN [st |-> st, val |-> LTable(st.vis[Pointer(v)])]
                    ELSE copySliceToTable(st, v)
               [] v.k = "map" ->
                    IF proxify
                    THEN [st |-> st, val |-> makeValueProxy(vp, "mapMT")]
                    ELSE IF visitedHas(st, v)
                    THEN [st |-> st, val |-> LTable(st.vis[Pointer(v)])]
                    ELSE copyMapToTable(st, v)
               [] v.k = "struct" ->
                    IF proxify /\ vp.k = "ptr"
                    THEN IF ~ro /\ v.typ.isError
                         THEN \* PushString(v.Error())
                              [st |-> st, val |-> LString("error text")]
                         ELSE [st |-> st, val |-> makeValueProxy(vp, "structMT")]
                    ELSE IF vp.k = "ptr" /\ visitedHas(st, vp)
                    THEN [st |-> st, val |-> LTable(st.vis[Pointer(vp)])]
                    ELSE copyStructToTable(st, vp)
               [] v.k = "chan" ->
                    [st |-> st, val |-> makeValueProxy(vp, "channelMT")]
               [] v.k = "func" ->
                    \* goToLuaFunction starts with v.Interface()
                    IF ro THEN Fault(st, "reflect.Value.Interface: unexported field")
                    ELSE [st |-> st, val |-> LFunction(v)]
               \* the default case: v.Interface().(error), v.IsNil()
               [] OTHER ->
                    IF ro THEN Fault(st, "reflect.Value.Interface: unexported field")
                    ELSE IF v.k = "interface" THEN [st |-> st, val |-> LNil]
                    ELSE Fault(st, "reflect: call of reflect.Value.IsNil on uintptr Value")

\* newVisitor: an empty registry table.
newVisitor(mem, maps, tabs) ==
    [mem |-> mem, maps |-> maps, tabs |-> tabs, vis |-> <<>>, fault |-> "nil"]

\* GoToLua and GoToLuaProxy: one visitor per call.
GoToLua(mem, maps, tabs, a) == goToLua(newVisitor(mem, maps, tabs), a, FALSE)
GoToLuaProxy(mem, maps, tabs, a) == goToLua(newVisitor(mem, maps, tabs), a, TRUE)

-----------------------------------------------------------------------------
(* LuaToGo: luar.go, the conversion of a Lua value into a Go variable.      *)
(* The Go code writes through an addressable reflect.Value; here every      *)
(* operator takes the variable's type t and current value cur and returns   *)
(* [st, val, err]: the threaded state st = [mem, maps, tabs, vis], the      *)
(* variable's value after the call, and the error ("nil" for none).  vis    *)
(* maps a table (lua_topointer) to the Go value already made for it.        *)

\* lua_objlen of a table built as a sequence: the border of its array part.
\* Of a table with holes Lua reports one of its borders, which one depends
\* on how the table was built; such a table carries the border reported
\* for it in the field len.
RECURSIVE Border(_, _)
Border(arr, i) == IF i < Len(arr) /\ arr[i + 1] # LNil THEN Border(arr, i + 1) ELSE i

Borders(tab) ==
    {n \in 0..Len(tab.arr) :
        /\ n = 0 \/ tab.arr[n] # LNil
        /\ n = Len(tab.arr) \/ tab.arr[n + 1] = LNil}

ObjLen(tab) == IF "len" \in DOMAIN tab THEN tab.len ELSE Border(tab.arr, 0)

\* The pairs lua_next visits: the array part in order, then the hash part.
ArrKeys(tab) == {i \in 1..Len(tab.arr) : tab.arr[i] # LNil}

luaIsEmpty(tab) == ArrKeys(tab) = {} /\ DOMAIN tab.hash = {}

luaMapLen(tab) == Cardinality(ArrKeys(tab)) + Cardinality(DOMAIN tab.hash)

IsNumeric(t) == t.k \in {"int64", "float64"}

\* reflect's Type.ConvertibleTo, for the types of the model: a type converts
\* to itself and to the empty interface, and numeric types to each other.
ConvertibleTo(from, to) == \/ from = to
                           \/ to.k = "interface"
                           \/ IsNumeric(from) /\ IsNumeric(to)

\* reflect's Value.Convert, where ConvertibleTo holds.
Convert(v, to) ==
    CASE to.k = "interface" -> IF v.k = "interface" THEN v ELSE Box(v)
      [] to.k = "int64" -> [k |-> "int64", t |-> to.t, n |-> IntOfFloat64(v.n)]
      [] to.k = "float64" ->
            [k |-> "float64", t |-> to.t,
             n |-> IF v.k = "int64" THEN Float64OfInt(v.n) ELSE v.n]
      [] OTHER -> v

\* reflect.New(t) / reflect.MakeSlice: a fresh backing array of n zero values.
Alloc(st, t, n) == [st EXCEPT !.mem = Append(@, [i \in 1..n |-> Zero(t)])]

MakeMap(st) == [st EXCEPT !.maps = Append(@, <<>>)]

SetMapIndex(st, m, key, val) ==
    [st EXCEPT !.maps[m] = [x \in (DOMAIN @) \cup {key} |->
                              IF x = key THEN val ELSE @[x]]]

visit(st, tid, v) ==
    [st EXCEPT !.vis = [p \in (DOMAIN st.vis) \cup {tid} |->
                          IF p = tid THEN v ELSE st.vis[p]]]

\* The proxy's value and type, pointers followed while the type does not
\* convert to the target (a nil pointer leaves the invalid Value).
RECURSIVE Unwrap(_, _, _, _)
Unwrap(mem, v, typ, t) ==
    IF ConvertibleTo(typ, t) \/ v.k # "ptr" THEN [val |-> v, typ |-> typ]
    ELSE IF v.a = 0 THEN [val |-> Invalid, typ |-> typ.e]
    ELSE Unwrap(mem, mem[v.a][1], typ.e, t)

Digits == <<"0", "1", "2", "3", "4", "5", "6", "7", "8", "9">>

RECURSIVE DecimalString(_)
DecimalString(x) ==
    IF x < 10 THEN Digits[x + 1]
    ELSE DecimalString(x \div 10) \o Digits[(x % 10) + 1]

\* lua_tolstring: a string, the numeral of a number ("%.14g" of a natural
\* number below Limb), otherwise the empty string golua returns.
L_ToString(lv) ==
    CASE lv.k = "string" -> lv.s
      [] lv.k = "number" -> IF lv.n.hi < 0 THEN "-" \o DecimalString(Limb - lv.n.lo)
                            ELSE DecimalString(lv.n.lo)
      [] OTHER -> ""

RECURSIVE luaToGo(_, _, _, _)
RECURSIVE sliceElems(_, _, _, _, _, _)
RECURSIVE arrayElems(_, _, _, _, _, _, _)
RECURSIVE mapElems(_, _, _, _, _, _)

\* copyTableToSlice's loop over 1..n.  A failing element sets the status and
\* the loop goes on to the next element.
sliceElems(st, tab, te, sl, i, stat) ==
    IF i > sl.len \/ stat = "panic" THEN [st |-> st, val |-> sl, err |-> stat]
    ELSE LET r == luaToGo(st, tab.arr[i], te, Zero(te))
         IN  IF r.err # "nil"
             THEN sliceElems(r.st, tab, te, sl, i + 1,
                             IF r.err = "panic" THEN "panic" ELSE "ErrTableConv")
             ELSE sliceElems([r.st EXCEPT !.mem[sl.a][i] = r.val],
                             tab, te, sl, i + 1, stat)

\* copyTableToSlice registering the slice as it was before it was resized.
copyTableToSliceStaleMark(st, tid, t, cur) ==
    LET tab == st.tabs[tid]
        n   == ObjLen(tab)
        grown == n > cur.len
        st1 == IF grown THEN Alloc(st, t.e, n) ELSE st
        sl  == IF grown THEN GSlice(t.e, Len(st1.mem), n)
               ELSE GSlice(t.e, cur.a, n)
        st2 == IF n > 0 THEN visit(st1, tid, cur) ELSE st1
    IN  sliceElems(st2, tab, t.e, sl, 1, "nil")

copyTableToSlice(st, tid, t, cur) ==
    LET tab == st.tabs[tid]
        n   == ObjLen(tab)
        \* adjust the length of the slice
        grown == n > cur.len
        st1 == IF grown THEN Alloc(st, t.e, n) ELSE st
        sl  == IF grown THEN GSlice(t.e, Len(st1.mem), n)
               ELSE GSlice(t.e, cur.a, n)
        \* empty tables are not added to the visited values
        st2 == IF n > 0 THEN visit(st1, tid, sl) ELSE st1
    IN  sliceElems(st2, tab, t.e, sl, 1, "nil")

\* copyTableToSlice's loop for an array: as for a slice, the elements being
\* those of the array value av.
arrayElems(st, tab, te, av, i, n, stat) ==
    IF i > n \/ stat = "panic" THEN [st |-> st, val |-> av, err |-> stat]
    ELSE LET r == luaToGo(st, tab.arr[i], te, Zero(te))
         IN  IF r.err # "nil"
             THEN arrayElems(r.st, tab, te, av, i + 1, n,
                             IF r.err = "panic" THEN "panic" ELSE "ErrTableConv")
             ELSE arrayElems(r.st, tab, te, [av EXCEPT !.elems[i] = r.val],
                             i + 1, n, stat)

\* copyTableToSlice for an array: a longer table is cut to the array's
\* length, the elements past a shorter table are set to zero, and the
\* array is not added to the visited values.
copyTableToArray(st, tid, t, cur) ==
    LET tab == st.tabs[tid]
        n0  == ObjLen(tab)
        n   == IF n0 > Len(cur.elems) THEN Len(cur.elems) ELSE n0
        av  == [cur EXCEPT !.elems = [i \in DOMAIN cur.elems |->
                                        IF i > n THEN Zero(t.e) ELSE cur.elems[i]]]
    IN  arrayElems(st, tab, t.e, av, 1, n, "nil")

\* copyTableToMap's loop over the pairs; keys holds the keys left, as Lua
\* values.
mapElems(st, tab, t, mp, keys, stat) ==
    IF keys = <<>> \/ stat = "panic" THEN [st |-> st, val |-> mp, err |-> stat]
    ELSE LET key == keys[1]
             lv  == IF key.k = "number" THEN tab.arr[key.n.lo] ELSE tab.hash[key.s]
             \* the key type is string: a number key does not convert
             kerr == key.k # "string"
             r   == luaToGo(st, lv, t.e, Zero(t.e))
         IN  IF kerr
             THEN mapElems(st, tab, t, mp, Tail(keys), "ErrTableConv")
             ELSE IF r.err # "nil"
             THEN mapElems(r.st, tab, t, mp, Tail(keys),
                           IF r.err = "panic" THEN "panic" ELSE "ErrTableConv")
             ELSE mapElems(SetMapIndex(r.st, mp.m, key.s, r.val),
                           tab, t, mp, Tail(keys), stat)

RECURSIVE ArrKeySeq(_, _)
ArrKeySeq(tab, i) ==
    IF i > Len(tab.arr) THEN <<>>
    ELSE (IF tab.arr[i] # LNil THEN <<LNumber(Small(i))>> ELSE <<>>)
         \o ArrKeySeq(tab, i + 1)

RECURSIVE HashKeySeq(_)
HashKeySeq(S) ==
    IF S = {} THEN <<>>
    ELSE LET x == CHOOSE y \in S : TRUE IN <<LString(x)>> \o HashKeySeq(S \ {x})

copyTableToMap(st, tid, t, cur) ==
    LET tab == st.tabs[tid]
        st1 == IF cur.m = 0 THEN MakeMap(st) ELSE st
        mp  == IF cur.m = 0 THEN GMap(t.e, Len(st1.maps)) ELSE cur
        st2 == IF ~luaIsEmpty(tab) THEN visit(st1, tid, mp) ELSE st1
    IN  mapElems(st2, tab, t, mp,
                 ArrKeySeq(tab, 1) \o HashKeySeq(DOMAIN tab.hash), "nil")

\* The map copyTableToStruct builds from table keys to field names, the
\* fields taken in declaration order from the i-th on: a tagged field is
\* entered under its tag, an untagged one under its name, and a later entry
\* replaces an earlier one with the same key.
RECURSIVE fieldNames(_, _, _)
fieldNames(t, i, fields) ==
    IF i > Len(t.fields) THEN fields
    ELSE LET field == t.fields[i]
             key == IF field.tag # "" THEN field.tag ELSE field.name
         IN  fieldNames(t, i + 1,
                        [x \in (DOMAIN fields) \cup {key} |->
                           IF x = key THEN field.name ELSE fields[x]])

\* v.FieldByName(name): the index of the field, 0 for the invalid Value.
FieldByName(t, name) ==
    IF \E i \in DOMAIN t.fields : t.fields[i].name = name
    THEN CHOOSE i \in DOMAIN t.fields : t.fields[i].name = name
    ELSE 0

\* f.CanSet() of a field of an addressable struct.
CanSet(t, i) == i # 0 /\ t.fields[i].exported

RECURSIVE structElems(_, _, _, _, _, _)
\* copyTableToStruct's loop over the pairs; keys holds the keys left, as Lua
\* values.  A key without a settable field is skipped, a failing value sets
\* the status and the loop goes on.
structElems(st, tab, t, sv, keys, stat) ==
    IF keys = <<>> \/ stat = "panic" THEN [st |-> st, val |-> sv, err |-> stat]
    ELSE LET key == keys[1]
             lv  == IF key.k = "number" THEN tab.arr[key.n.lo] ELSE tab.hash[key.s]
             fields == fieldNames(t, 1, <<>>)
             name == IF L_ToString(key) \in DOMAIN fields
                     THEN fields[L_ToString(key)] ELSE ""
             f   == FieldByName(t, name)
         IN  IF ~CanSet(t, f) THEN structElems(st, tab, t, sv, Tail(keys), stat)
             ELSE LET r == luaToGo(st, lv, t.fields[f].typ, Zero(t.fields[f].typ))
                  IN  IF r.err # "nil"
                      THEN structElems(r.st, tab, t, sv, Tail(keys),
                               IF r.err = "panic" THEN "panic" ELSE "ErrTableConv")
                      ELSE structElems(r.st, tab, t, [sv EXCEPT !.f[f] = r.val],
                                       Tail(keys), stat)

\* copyTableToStruct registers the address of the struct for the table;
\* the fields the table does not name keep their values.
copyTableToStruct(st, tid, t, cur) ==
    LET tab == st.tabs[tid]
        st1 == IF ~luaIsEmpty(tab) THEN visit(st, tid, [k |-> "addr", typ |-> t]) ELSE st
    IN  structElems(st1, tab, t, cur,
                    ArrKeySeq(tab, 1) \o HashKeySeq(DOMAIN tab.hash), "nil")

\* The types LuaToGo infers for a table converted into an interface.
tslice == SliceT(IfaceT)
tmap   == MapT(IfaceT)

\* v.Set(x) panics unless x's type is assignable to the variable's type.
AssignableTo(from, to) == from = to \/ to.k = "interface"

luaToGo(st, lv, t, cur) ==
    IF t.k = "ptr"
    THEN \* dereference until a non-pointer, allocating nil pointers
         LET st1 == IF cur.a = 0 THEN Alloc(st, t.e, 1) ELSE st
             a   == IF cur.a = 0 THEN Len(st1.mem) ELSE cur.a
             r   == luaToGo(st1, lv, t.e, st1.mem[a][1])
         IN  [st |-> [r.st EXCEPT !.mem[a][1] = r.val],
              val |-> GPtr(t.e, a), err |-> r.err]
    ELSE
    CASE lv.k = "nil" -> [st |-> st, val |-> Zero(t), err |-> "nil"]
      [] lv.k = "boolean" ->
            IF t.k \notin {"bool", "interface"}
            THEN [st |-> st, val |-> cur, err |-> "ConvError"]
            ELSE [st |-> st, val |-> Convert(GBool(lv.b), t), err |-> "nil"]
      [] lv.k = "number" ->
            IF t.k \in {"int64", "float64", "interface"}
            THEN [st |-> st, val |-> Convert(GFloat(lv.n), t), err |-> "nil"]
            ELSE [st |-> st, val |-> cur, err |-> "ConvError"]
      [] lv.k = "string" ->
            IF t.k \notin {"string", "interface"}
            THEN [st |-> st, val |-> cur, err |-> "ConvError"]
            ELSE [st |-> st, val |-> Convert(GString(lv.s), t), err |-> "nil"]
      [] lv.k = "userdata" ->
            IF lv.v = GNull
            THEN \* special case for Null
                 [st |-> st, val |-> Zero(t), err |-> "nil"]
            ELSE LET u == Unwrap(st.mem, lv.v, TypeOf(lv.v), t)
                 IN  IF ~ConvertibleTo(u.typ, t)
                     THEN [st |-> st, val |-> cur, err |-> "ConvError"]
                     ELSE IF u.val = Invalid
                     THEN [st |-> st, val |-> cur, err |-> "panic"]
                     ELSE [st |-> st, val |-> Convert(u.val, t), err |-> "nil"]
      [] lv.k = "table" ->
            IF lv.id \in DOMAIN st.vis
            THEN IF AssignableTo(TypeOf(st.vis[lv.id]), t)
                 THEN [st |-> st, val |-> Convert(st.vis[lv.id], t), err |-> "nil"]
                 ELSE [st |-> st, val |-> cur, err |-> "panic"]
            ELSE
            CASE t.k = "slice" -> copyTableToSlice(st, lv.id, t, cur)
              [] t.k = "array" -> copyTableToArray(st, lv.id, t, cur)
              [] t.k = "map" -> copyTableToMap(st, lv.id, t, cur)
              [] t.k = "struct" -> copyTableToStruct(st, lv.id, t, cur)
              [] t.k = "interface" ->
                    LET n   == ObjLen(st.tabs[lv.id])
                        dyn == IF cur.d = <<>> THEN Invalid ELSE cur.d[1]
                        r == CASE dyn.k = "map" ->
                                    IF dyn.m = 0
                                    THEN [st |-> st, val |-> dyn, err |-> "panic"]
                                    ELSE copyTableToMap(st, lv.id, TypeOf(dyn), dyn)
                               [] dyn.k = "slice" ->
                                    LET st1 == Alloc(st, dyn.e, n)
                                    IN  copyTableToSlice(st1, lv.id, TypeOf(dyn),
                                            GSlice(dyn.e, Len(st1.mem), n))
                               [] OTHER ->
                                    IF luaMapLen(st.tabs[lv.id]) # n
                                    THEN LET st1 == MakeMap(st)
                                         IN  copyTableToMap(st1, lv.id, tmap,
                                                 GMap(IfaceT, Len(st1.maps)))
                                    ELSE LET st1 == Alloc(st, IfaceT, n)
                                         IN  copyTableToSlice(st1, lv.id, tslice,
                                                 GSlice(IfaceT, Len(st1.mem), n))
                    IN  [st |-> r.st, val |-> Box(r.val), err |-> r.err]
              [] OTHER -> [st |-> st, val |-> cur, err |-> "ConvError"]
      [] OTHER -> [st |-> st, val |-> cur, err |-> "ConvError"]

\* LuaToGo(L, idx, &variable): a nil Lua value nullifies a pointer variable;
\* everything else is luaToGo with a fresh visited map.
LuaToGo(mem, maps, tabs, lv, t, cur) ==
    IF t.k = "ptr" /\ lv.k = "nil"
    THEN [st |-> [mem |-> mem, maps |-> maps, tabs |-> tabs, vis |-> <<>>],
          val |-> Zero(t), err |-> "nil"]
    ELSE luaToGo([mem |-> mem, maps |-> maps, tabs |-> tabs, vis |-> <<>>], lv, t, cur)

-----------------------------------------------------------------------------
(* The conversion scenario: a host program hands a slice to GoToLua and     *)
(* converts the resulting table back with LuaToGo into a fresh variable of  *)
(* the slice's type; or a script builds a sequence and the host converts    *)
(* it with LuaToGo into a typed slice.                                      *)

\* The longest slice and the longest script sequence.
MaxLen == 3

\* 2^53 + 1, the first integer that is no float64.
BigOdd == Num(2^26, 1)

\* Host memory before the conversion: cell 1 is the zero-size base every
\* empty non-nil slice points to, cell 2 the pointee of the sample *int64,
\* cell 3 the backing array of the sample []string, cell 4 the backing array
\* of the input slice.
InputAddr == Len(<<"zerobase", "pointee", "inner", "input">>)

ElemSamples(t, n) ==
    CASE t = BoolT -> {GBool(TRUE), GBool(FALSE)}
      [] t = IntT -> {GInt(Small(0)), GInt(Small(17)), GInt(Small(-3)), GInt(BigOdd)}
      [] t = FloatT -> {GFloat(Small(0)), GFloat(Small(17))}
      [] t = StringT -> {GString(""), GString("x")}
      [] t = IfaceT -> {NilIface, Box(GInt(Small(17))), Box(GString("x")),
                        Box(GSlice(IfaceT, InputAddr, n))}
      [] t = PtrT(IntT) -> {GPtr(IntT, 0), GPtr(IntT, 2)}
      [] t = SliceT(StringT) -> {GSlice(StringT, 0, 0), GSlice(StringT, 3, 1),
                                 GSlice(StringT, 1, 0)}
      [] t = MapT(IntT) -> {GMap(IntT, 0), GMap(IntT, 1)}

ElemTypes == {BoolT, IntT, FloatT, StringT, IfaceT, PtrT(IntT), SliceT(StringT),
              MapT(IntT)}

\* What a script puts into a sequence: scalars, luar.null and the sequence
\* itself (t[i] = t).
ScriptSamples == {LNumber(Small(1)), LString("x"), LBool(TRUE),
                  makeValueProxy(GNull, "interfaceMT"), LTable(1)}

ScriptTargets == {SliceT(IntT), SliceT(StringT), SliceT(BoolT), SliceT(IfaceT),
                  SliceT(SliceT(IfaceT))}

InitMem(elems) == << <<>>, <<GInt(Small(7))>>, <<GString("one")>>, elems >>

\* No slice was handed to a script.
ProxyIdle == /\ handle = LNil
             /\ hInit = <<>>
             /\ writes = <<>>
             /\ raised = "nil"

\* No handle is made or finalized.
AnchorIdle == /\ proxyMap = <<>>
              /\ proxymu = "free"
              /\ userdata = <<>>
              /\ gpc = <<>>

\* No LuaObject is iterated.
IterIdle == /\ lo = <<>>
            /\ targets = <<>>
            /\ luaStack = <<>>
            /\ ti = <<>>
            /\ delivered = <<>>
            /\ iterc = "none"

\* No host function was wrapped.
FuncIdle == /\ fnSig = [in |-> <<>>, variadic |-> FALSE]
            /\ argsT = <<>>
            /\ calls = 0
            /\ lastCall = <<>>
            /\ lastOutcome = <<>>

\* No channel is in use.
ChanIdle == /\ build = "none"
            /\ chT = IfaceT
            /\ pc = <<>>
            /\ job = <<>>
            /\ inflight = <<>>
            /\ got = <<>>
            /\ performed = {}

\* No operator is applied to a proxy.
OpIdle == /\ operator = "none"
          /\ operands = <<>>
          /\ opc = "idle"
          /\ opResult = <<>>

InitConv ==
    /\ ProxyIdle
    /\ AnchorIdle
    /\ IterIdle
    /\ FuncIdle
    /\ ChanIdle
    /\ OpIdle
    /\ luaTabs = <<>>
    /\ goMaps = << [x \in {"a"} |-> GInt(Small(1))] >>
    /\ luaVal = LNil
    /\ output = Invalid
    /\ status = "nil"
    /\ \/ /\ origin = "host"
          /\ cpc = "host"
          /\ \E t \in ElemTypes, n \in 0..MaxLen :
               \E elems \in [1..n -> ElemSamples(t, n)] :
                 /\ goMem = InitMem(elems)
                 /\ input \in {GSlice(t, InputAddr, n)} \cup
                              (IF n = 0 THEN {GSlice(t, 0, 0)} ELSE {})
                 /\ target = SliceT(t)
       \/ /\ origin = "script"
          /\ cpc = "script"
          /\ goMem = InitMem(<<>>)
          /\ input = Invalid
          /\ target \in ScriptTargets

\* GoToLua(L, input): the copy, not the proxy.
ConvGoToLua ==
    /\ cpc = "host"
    /\ LET r == GoToLua(goMem, goMaps, luaTabs, input)
       IN  /\ luaTabs' = r.st.tabs
           /\ luaVal' = r.val
    /\ cpc' = "lua"
    /\ UNCHANGED <<goMem, goMaps, origin, input, target, output, status>>

\* A script builds a sequence t = {e1, ..., en}.
ScriptBuild ==
    /\ cpc = "script"
    /\ \E n \in 0..MaxLen :
         \E elems \in [1..n -> ScriptSamples] :
           /\ luaTabs' = << [arr |-> elems, hash |-> <<>>] >>
           /\ luaVal' = LTable(1)
    /\ cpc' = "lua"
    /\ UNCHANGED <<goMem, goMaps, origin, input, target, output, status>>

\* var output T; status = LuaToGo(L, -1, &output)
ConvLuaToGo ==
    /\ cpc = "lua"
    /\ LET r == LuaToGo(goMem, goMaps, luaTabs, luaVal, target, Zero(target))
       IN  /\ goMem' = r.st.mem
           /\ goMaps' = r.st.maps
           /\ output' = r.val
           /\ status' = r.err
    /\ cpc' = "done"
    /\ UNCHANGED <<luaTabs, origin, input, luaVal, target>>

NextConv == /\ ConvGoToLua \/ ScriptBuild \/ ConvLuaToGo
            /\ UNCHANGED <<anchorVars, iterVars, proxyVars, funcVars, chanVars, opVars>>

SpecConv == InitConv /\ [][NextConv]_vars

-----------------------------------------------------------------------------
(* Claims about the conversion scenario.                                    *)

RoundTripDone == cpc = "done" /\ origin = "host"

InputElem(i) == goMem[InputAddr][i]

OutputElem(i) == goMem[output.a][i]

ScalarTypes == {BoolT, IntT, FloatT, StringT}

ExactNumbers ==
    \A i \in 1..input.len : InputElem(i).k = "int64" => InFloatRange(InputElem(i).n)

SelfAt(i) == /\ origin = "host"
             /\ input.k = "slice"
             /\ input.e = IfaceT
             /\ i \in 1..input.len
             /\ InputElem(i) = Box(input)

\* The script sequence holds itself at position i.
ScriptSelfAt(i) == /\ origin = "script"
                   /\ cpc \in {"lua", "done"}
                   /\ i \in 1..Len(luaTabs[1].arr)
                   /\ luaTabs[1].arr[i] = LTable(1)

\* C2: a slice that contains itself converts to a table whose element is the
\* very same table, a table that contains itself converts to a slice whose
\* element is the very same slice, and the round trip of the slice ends with
\* a slice r whose element is r itself.
C2_CyclePreserved ==
    \A i \in 1..MaxLen :
        /\ (SelfAt(i) /\ cpc \in {"lua", "done"}) =>
                /\ luaVal.k = "table"
                /\ luaTabs[luaVal.id].arr[i] = luaVal
        /\ (SelfAt(i) /\ cpc = "done") =>
                /\ status = "nil"
                /\ output.len = input.len
                /\ OutputElem(i) = Box(output)
        /\ (ScriptSelfAt(i) /\ cpc = "done" /\ target = SliceT(IfaceT)) =>
                /\ status = "nil"
                /\ OutputElem(i) = Box(output)

C2_Witness ==
    /\ SelfAt(2)
    /\ cpc = "done"
    /\ input.len = 2
    /\ InputElem(1) = Box(GInt(Small(17)))
    /\ OutputElem(2) = Box(output)
    /\ output.a # input.a

NilableTypes == {IfaceT, PtrT(IntT), SliceT(StringT), MapT(IntT)}

\* C4: for a slice of nilable elements the round trip yields a slice of the
\* same length whose nil positions are exactly the nil positions of the
\* original.
C4_NilPositionsPreserved ==
    (RoundTripDone /\ input.e \in NilableTypes) =>
        /\ status = "nil"
        /\ output.len = input.len
        /\ \A i \in 1..input.len : isNil(OutputElem(i)) <=> isNil(InputElem(i))

\* What LuaToGo makes of one Lua value converted on its own into a fresh
\* variable of type t.
Alone(lv, t) == LuaToGo(goMem, goMaps, luaTabs, lv, t, Zero(t))

Convertible(lv, t) == Alone(lv, t).err = "nil"

ScriptSeq == luaTabs[1].arr

\* C5: converting a script sequence of N elements of which some do not
\* convert returns ErrTableConv and a slice of length N, and every
\* convertible position holds its converted value.
C5_PartialConversion ==
    (/\ cpc = "done"
     /\ origin = "script"
     /\ \E i \in 1..Len(ScriptSeq) : ~Convertible(ScriptSeq[i], target.e)) =>
        /\ status = "ErrTableConv"
        /\ output.len = Len(ScriptSeq)
        /\ \A i \in 1..Len(ScriptSeq) :
             (Convertible(ScriptSeq[i], target.e) /\ target.e \in ScalarTypes) =>
                 OutputElem(i) = Alone(ScriptSeq[i], target.e).val

-----------------------------------------------------------------------------
(* Slice proxies: proxy.go.  A script assigns to the elements of a host     *)
(* slice through the value it was given: the userdata of GoToLuaProxy,      *)
(* whose __newindex is slice__newindex, or the table of GoToLua.            *)

\* The numerals among the strings a script uses, with their values.
Numerals == [s \in {"18"} |-> Small(18)]

\* lua_tonumber: a number, a string that is a numeral, otherwise 0.
ToNumber(lv) ==
    CASE lv.k = "number" -> lv.n
      [] lv.k = "string" /\ lv.s \in DOMAIN Numerals -> Numerals[lv.s]
      [] OTHER -> Small(0)

\* lua_tointeger of an integer-valued number below Limb.
ToInteger(lv) == LET n == ToNumber(lv) IN IF n.hi < 0 THEN n.lo - Limb ELSE n.lo

\* lua_toboolean: everything but nil and false is true.
ToBoolean(lv) == ~(lv.k = "nil" \/ (lv.k = "boolean" /\ ~lv.b))

\* luaToGoValue(L, t, idx) of the API proxy.go calls (LuaToGo(L, t, idx)):
\* the target kind alone picks the lua_to* accessor.
luaToGoValue(t, lv) ==
    CASE t.k = "int64" -> [k |-> "int64", t |-> t.t, n |-> IntOfFloat64(ToNumber(lv))]
      [] t.k = "float64" -> [k |-> "float64", t |-> t.t, n |-> ToNumber(lv)]
      [] t.k = "string" -> [k |-> "string", t |-> t.t, s |-> L_ToString(lv)]
      [] t.k = "bool" -> [k |-> "bool", t |-> t.t, b |-> ToBoolean(lv)]
      [] t.k = "interface" ->
            CASE lv.k = "number" -> Box(GFloat(lv.n))
              [] lv.k = "string" -> Box(GString(lv.s))
              [] lv.k = "boolean" -> Box(GBool(lv.b))
              [] OTHER -> NilIface

\* slice__newindex that converts the value and sets it in a copy of the
\* slice.
slice__newindexOnCopy(mem, px, key, lv) ==
    LET slice == px.v
        idx == ToInteger(key)
    IN  IF idx < 1 \/ idx > slice.len
        THEN [mem |-> mem, err |-> "slice/array set: index out of range"]
        ELSE [mem |-> mem, err |-> "nil"]

\* slice__newindex: proxy[key] = lv.  An array is held through a pointer,
\* its elements are part of the pointee.
slice__newindex(mem, px, key, lv) ==
    LET slice == FollowPtr(mem, px.v)
        idx == ToInteger(key)
        val == luaToGoValue(slice.e, lv)
    IN  IF idx < 1 \/ idx > ValueLen(slice)
        THEN [mem |-> mem, err |-> "slice/array set: index out of range"]
        ELSE IF slice.k = "array"
        THEN [mem |-> [mem EXCEPT ![px.v.a][1].elems[idx] = val], err |-> "nil"]
        ELSE [mem |-> [mem EXCEPT ![slice.a][idx] = val], err |-> "nil"]

\* Lua's own table[key] = lv on a table built as a sequence: a position of
\* the array part, the position after it, or a string key of the hash part.
settable(tab, key, lv) ==
    IF key.k = "number"
    THEN LET i == ToInteger(key)
         IN  IF i \in 1..Len(tab.arr) THEN [tab EXCEPT !.arr[i] = lv]
             ELSE IF lv = LNil THEN tab
             ELSE [tab EXCEPT !.arr = Append(@, lv)]
    ELSE [tab EXCEPT !.hash =
            [x \in (IF lv = LNil THEN DOMAIN @ \ {key.s} ELSE DOMAIN @ \cup {key.s}) |->
                IF x = key.s THEN lv ELSE @[x]]]

MaxWrites == 2

ProxyTypes == {IntT, StringT, BoolT}

\* The elements the host slice starts with.
HostElem(t, i) ==
    CASE t = IntT -> GInt(Small(16 + i))
      [] t = StringT -> GString("s")
      [] t = BoolT -> GBool(FALSE)

\* The keys and values of a script's assignments.
WriteKeys(n) == {LNumber(Small(i)) : i \in 1..(n + 1)} \cup {LString("k")}

WriteVals == {LNumber(Small(170)), LString("18"), LBool(TRUE), LNil}

InitProxy ==
    /\ ProxyIdle
    /\ AnchorIdle
    /\ IterIdle
    /\ FuncIdle
    /\ ChanIdle
    /\ OpIdle
    /\ luaTabs = <<>>
    /\ goMaps = <<>>
    /\ luaVal = LNil
    /\ output = Invalid
    /\ status = "nil"
    /\ origin = "host"
    /\ cpc = "host"
    /\ \E t \in ProxyTypes, n \in 0..MaxLen :
         /\ goMem = InitMem([i \in 1..n |-> HostElem(t, i)])
         /\ input = GSlice(t, InputAddr, n)
         /\ target = SliceT(t)

\* GoToLuaProxy(L, h); L.SetGlobal("h")
PushProxy ==
    /\ handle = LNil
    /\ LET r == GoToLuaProxy(goMem, goMaps, luaTabs, input)
       IN  /\ handle' = r.val
           /\ luaTabs' = r.st.tabs
    /\ hInit' = goMem[input.a]
    /\ UNCHANGED <<goMem, writes, raised>>

\* GoToLua(L, h); L.SetGlobal("h")
PushCopy ==
    /\ handle = LNil
    /\ LET r == GoToLua(goMem, goMaps, luaTabs, input)
       IN  /\ handle' = r.val
           /\ luaTabs' = r.st.tabs
    /\ hInit' = goMem[input.a]
    /\ UNCHANGED <<goMem, writes, raised>>

\* The script runs h[key] = val.
ScriptWrite ==
    /\ handle # LNil
    /\ Len(writes) < MaxWrites
    /\ \E key \in WriteKeys(input.len), lv \in WriteVals :
         /\ writes' = Append(writes, [key |-> key, val |-> lv])
         /\ IF handle.k = "userdata"
            THEN LET r == slice__newindex(goMem, handle, key, lv)
                 IN  /\ goMem' = r.mem
                     /\ raised' = r.err
                     /\ UNCHANGED luaTabs
            ELSE /\ luaTabs' = [luaTabs EXCEPT ![handle.id] = settable(@, key, lv)]
                 /\ raised' = "nil"
                 /\ UNCHANGED goMem
    /\ UNCHANGED <<handle, hInit>>

NextProxy == /\ PushProxy \/ PushCopy \/ ScriptWrite
             /\ UNCHANGED <<goMaps, cpc, origin, input, luaVal, target, output, status>>
             /\ UNCHANGED <<anchorVars, iterVars, funcVars, chanVars, opVars>>

SpecProxy == InitProxy /\ [][NextProxy]_vars

\* The elements a host slice holds after the assignments ws, each made to
\* the slice itself: an assignment to position i of 1..len stores the value
\* converted to the element type, any other assignment stores nothing.
RECURSIVE Replay(_, _, _)
Replay(elems, t, ws) ==
    IF ws = <<>> THEN elems
    ELSE LET w == Head(ws)
             i == IF w.key.k = "number" THEN ToInteger(w.key) ELSE 0
         IN  Replay(IF i \in 1..Len(elems)
                    THEN [elems EXCEPT ![i] = luaToGoValue(t, w.val)]
                    ELSE elems,
                    t, Tail(ws))

\* C3: every element assignment a script makes through the proxy of a host
\* slice shows in the host slice itself, and no assignment a script makes to
\* the table copy of a host slice changes the host slice.
C3_ProxyWritesVisible ==
    /\ handle.k = "userdata" => goMem[input.a] = Replay(hInit, input.e, writes)
    /\ handle.k = "table" => goMem[input.a] = hInit

C3_Witness ==
    /\ handle.k = "userdata"
    /\ input.e = IntT
    /\ Len(writes) = 2
    /\ writes[1] = [key |-> LNumber(Small(1)), val |-> LNumber(Small(170))]
    /\ writes[2].key = LNumber(Small(2))
    /\ goMem[input.a][1] = GInt(Small(170))
    /\ goMem[input.a][1] # hInit[1]

C3_WitnessCopy ==
    /\ handle.k = "table"
    /\ Len(writes) = 2
    /\ luaTabs[handle.id].arr[1] = LNumber(Small(170))
    /\ goMem[input.a][1] = GInt(Small(17))

-----------------------------------------------------------------------------
(* The function adapter: goToLuaFunction and callGoFunction of luar.go.     *)
(* The closure goToLuaFunction returns captures argsT, the parameter types  *)
(* of the host function, and every invocation of the closure works on that  *)
(* one slice.                                                               *)

\* A signature: t.In(0..NumIn-1) and t.IsVariadic().
Sig(in, variadic) == [in |-> in, variadic |-> variadic]

\* What ended an invocation: values returned to the script, an error raised
\* in the script (L.RaiseError), or a Go panic nothing recovered.  reached
\* tells whether the body of the host function ran.
Outcome(kind, reached, ret) == [kind |-> kind, reached |-> reached, ret |-> ret]

\* reflect.Value.Call's check of the arguments against the signature.
CallAccepts(sig, args) ==
    LET nin == Len(sig.in)
        nfixed == IF sig.variadic THEN nin - 1 ELSE nin
    IN  /\ IF sig.variadic THEN Len(args) >= nfixed ELSE Len(args) = nin
        /\ \A i \in 1..Len(args) :
             AssignableTo(TypeOf(args[i]),
                          IF i <= nfixed THEN sig.in[i] ELSE sig.in[nin].e)

\* The values recover() can return for the fault of the host function: the
\* panic value, and for panic(nil) either nil or, with a toolchain that
\* replaces it, a *runtime.PanicNilError.
RecoverValues(fault) ==
    CASE fault = "none" -> {"none"}
      [] fault = "panic" -> {"value"}
      [] fault = "panic(nil)" -> {"nil", "PanicNilError"}

\* callGoFunction: v.Call(args) under a deferred recover() that raises a
\* script error when it recovered a value other than nil.  The host function
\* of the model returns its arguments.
callGoFunction(sig, args, fault, rec) ==
    IF ~CallAccepts(sig, args) THEN Outcome("luaError", FALSE, <<>>)
    ELSE IF fault = "none" THEN Outcome("ok", TRUE, args)
    ELSE IF rec # "nil" THEN Outcome("luaError", TRUE, <<>>)
    ELSE Outcome("ok", TRUE, <<>>)

\* LuaToGo(L, i, val.Interface()) for argument i of the call; an index above
\* the top of the stack is LUA_TNONE, which converts to nothing.
ConvertArg(luaArgs, i, t) ==
    IF i > Len(luaArgs) THEN [val |-> Zero(t), err |-> "ConvError"]
    ELSE LuaToGo(<<>>, <<>>, <<>>, luaArgs[i], t, Zero(t))

\* The first position from i on whose argument does not convert, 0 if all do.
RECURSIVE FirstBad(_, _, _, _)
FirstBad(luaArgs, types, i, n) ==
    IF i > n THEN 0
    ELSE IF ConvertArg(luaArgs, i, types[i]).err # "nil" THEN i
    ELSE FirstBad(luaArgs, types, i + 1, n)

\* One invocation of the closure: held is argsT as the closure finds it.
invoke(sig, held, luaArgs, fault, rec) ==
    IF sig.variadic /\ Len(held) = 0
    THEN \* argsT[n-1] with n = 0
         [argsT |-> held, out |-> Outcome("hostPanic", FALSE, <<>>)]
    ELSE IF sig.variadic /\ held[Len(held)].k \notin {"slice", "ptr", "map"}
    THEN \* Elem() of a type that has no element type
         [argsT |-> held, out |-> Outcome("hostPanic", FALSE, <<>>)]
    ELSE
    LET fixed == IF sig.variadic THEN SubSeq(held, 1, Len(held) - 1) ELSE held
        nfixed == Len(fixed)
        top == IF Len(luaArgs) > nfixed THEN Len(luaArgs) ELSE nfixed
        types == [i \in 1..top |-> IF i <= nfixed THEN fixed[i] ELSE held[Len(held)].e]
        n == IF sig.variadic THEN top ELSE nfixed
    IN  IF FirstBad(luaArgs, types, 1, n) # 0
        THEN \* L.RaiseError leaves the closure, argsT stays as it is now
             [argsT |-> fixed, out |-> Outcome("luaError", FALSE, <<>>)]
        ELSE [argsT |-> IF sig.variadic THEN SubSeq(sig.in, 1, nfixed + 1) ELSE fixed,
              out |-> callGoFunction(sig, [i \in 1..n |-> ConvertArg(luaArgs, i, types[i]).val],
                                     fault, rec)]

MaxCalls == 3

MaxArgs == 2

\* sumv(args ...int64), f(s string, args ...int64), g(a []int64, args ...int64)
\* and id(x int64, a string).
Sigs == {Sig(<<SliceT(IntT)>>, TRUE),
         Sig(<<StringT, SliceT(IntT)>>, TRUE),
         Sig(<<SliceT(IntT), SliceT(IntT)>>, TRUE),
         Sig(<<IntT, StringT>>, FALSE)}

ArgSamples == {LNumber(Small(10)), LString("foo"), LNil}

Faults == {"none", "panic", "panic(nil)"}

\* Register(L, "", Map{"f": f}): goToLuaFunction copies the parameter types.
InitFunc ==
    /\ ProxyIdle
    /\ AnchorIdle
    /\ IterIdle
    /\ ChanIdle
    /\ OpIdle
    /\ luaTabs = <<>>
    /\ goMem = <<>>
    /\ goMaps = <<>>
    /\ luaVal = LNil
    /\ input = Invalid
    /\ target = IfaceT
    /\ output = Invalid
    /\ status = "nil"
    /\ origin = "host"
    /\ cpc = "host"
    /\ fnSig \in Sigs
    /\ argsT = fnSig.in
    /\ calls = 0
    /\ lastCall = <<>>
    /\ lastOutcome = <<>>

\* The script calls f(a1, ..., an); the host function returns or panics.
ScriptCall ==
    /\ calls < MaxCalls
    /\ \E n \in 0..MaxArgs :
         \E luaArgs \in [1..n -> ArgSamples], fault \in Faults :
           \E rec \in RecoverValues(fault) :
             LET r == invoke(fnSig, argsT, luaArgs, fault, rec)
             IN  /\ argsT' = r.argsT
                 /\ lastOutcome' = r.out
                 /\ lastCall' = [args |-> luaArgs, fault |-> fault, rec |-> rec]
    /\ calls' = calls + 1
    /\ UNCHANGED fnSig

NextFunc == /\ ScriptCall
            /\ UNCHANGED <<anchorVars, iterVars, convVars, proxyVars, chanVars, opVars>>

SpecFunc == InitFunc /\ [][NextFunc]_vars

\* C6: after any sequence of invocations the closure holds the parameter
\* types of the host function's signature, and every invocation ends as the
\* same invocation of a newly wrapped function ends.
C6_AdapterImmutable ==
    /\ argsT = fnSig.in
    /\ calls > 0 =>
         lastOutcome = invoke(fnSig, fnSig.in, lastCall.args, lastCall.fault,
                              lastCall.rec).out

\* C7: an invocation in which the host function panicked ends with an error
\* raised in the script, never with values returned and never with a Go
\* panic.
C7_FaultBecomesScriptError ==
    (calls > 0 /\ lastOutcome.reached /\ lastCall.fault # "none") =>
        lastOutcome.kind = "luaError"

-----------------------------------------------------------------------------
(* Channels.  Two versions of the channel code are in the repository:       *)
(* "driver" is proxy.go, where channel_send and channel_recv yield a        *)
(* descriptor to the goroutine GoLua started, and "inline" is               *)
(* channel__index, whose closures call Send, Recv and Close themselves.     *)
(* One unbuffered channel is shared by two interpreter states.              *)

Mains == {"m1", "m2"}

Drivers == {"d1", "d2", "d3"}

Tasks == Mains \cup Drivers

\* The interpreter state a host task works on: m1 runs the script of L1 and
\* its script starts d1 and d2; m2 runs the script of L2, which starts d3.
StateOf(t) == IF t \in {"m1", "d1", "d2"} THEN "L1" ELSE "L2"

States == {StateOf(t) : t \in Tasks}

NoJob == [kind |-> "none"]

SendJob(lv) == [kind |-> "send", val |-> lv]

RecvJob == [kind |-> "recv"]

\* The names the __index of a channel proxy resolves.
channelMethods(b) ==
    IF b = "driver" THEN {"Send", "Recv"} ELSE {"recv", "send", "close"}

\* reflect.ValueOf(LuaToGo(L, t.Elem(), idx)): the value to send, the invalid
\* Value when the conversion gave a nil interface.
ValueToSend(t, lv) ==
    LET g == luaToGoValue(t, lv)
    IN  IF g = NilIface THEN Invalid
        ELSE IF g.k = "interface" THEN g.d[1] ELSE g

\* GoToLua(L, nil, val, false) of the API the channel code calls: interfaces
\* are unboxed and scalars pushed.
RECURSIVE GoToLuaTyped(_)
GoToLuaTyped(val) ==
    CASE val = Invalid -> LNil
      [] val.k = "interface" -> IF isNil(val) THEN LNil ELSE GoToLuaTyped(val.d[1])
      [] val.k = "float64" -> LNumber(val.n)
      [] val.k = "int64" -> LNumber(Float64OfInt(val.n))
      [] val.k = "string" -> LString(val.s)
      [] val.k = "bool" -> LBool(val.b)

\* No goroutine has died of a panic.
Running == \A t \in Tasks : pc[t] # "crashed"

\* channel__index: the script evaluates c.send or c.recv and gets a closure.
channel__index(t) ==
    /\ build = "inline"
    /\ Running
    /\ pc[t] = "ready"
    /\ pc' = [pc EXCEPT ![t] = "indexed"]
    /\ UNCHANGED <<build, chT, job, inflight, got, performed>>

\* The closure of "send": convert the argument and call v.Send(val), which
\* panics on the invalid Value and otherwise blocks until a receiver is there.
InlineSend(t) ==
    /\ build = "inline"
    /\ Running
    /\ pc[t] = "indexed"
    /\ job[t].kind = "send"
    /\ LET val == ValueToSend(chT, job[t].val)
       IN  IF val = Invalid
           THEN /\ pc' = [pc EXCEPT ![t] = "failed"]
                /\ UNCHANGED inflight
           ELSE /\ pc' = [pc EXCEPT ![t] = "blocked"]
                /\ inflight' = [inflight EXCEPT ![t] = val]
    /\ UNCHANGED <<build, chT, job, got, performed>>

\* The closure of "recv": v.Recv() blocks until a sender is there.
InlineRecv(t) ==
    /\ build = "inline"
    /\ Running
    /\ pc[t] = "indexed"
    /\ job[t].kind = "recv"
    /\ pc' = [pc EXCEPT ![t] = "blocked"]
    /\ UNCHANGED <<build, chT, job, inflight, got, performed>>

\* The Go runtime completes a send and a receive blocked on the channel.
Rendezvous(s, r) ==
    /\ Running
    /\ s # r
    /\ pc[s] = "blocked" /\ job[s].kind = "send"
    /\ pc[r] = "blocked" /\ job[r].kind = "recv"
    /\ pc' = [pc EXCEPT ![s] = "sent", ![r] = "received"]
    /\ inflight' = [inflight EXCEPT ![r] = IF chT.k = "interface" THEN Box(inflight[s])
                                           ELSE inflight[s]]
    /\ performed' = performed \cup
          {[kind |-> "send", by |-> IF s \in Drivers THEN "driver" ELSE "script"],
           [kind |-> "recv", by |-> IF r \in Drivers THEN "driver" ELSE "script"]}
    /\ UNCHANGED <<build, chT, job, got>>

\* The closure returns to the script: nothing for a send, the received value
\* for a receive.
InlineReturn(t) ==
    /\ build = "inline"
    /\ Running
    /\ pc[t] \in {"sent", "received"}
    /\ pc' = [pc EXCEPT ![t] = "done"]
    /\ got' = [got EXCEPT ![t] = IF pc[t] = "received" THEN GoToLuaTyped(inflight[t])
                                 ELSE @]
    /\ UNCHANGED <<build, chT, job, inflight, performed>>

\* The tasks of a state that are in the middle of a call sequence on it.
InFlight(t) ==
    IF t \in Mains THEN pc[t] \in {"run", "indexed", "blocked", "sent", "received"}
    ELSE pc[t] \in {"setup", "resume", "yielded", "sent", "received"}

\* A driver blocked in the channel operation of its script task.
Pending(t) == t \in Drivers /\ pc[t] = "blocked"

\* GoLua: the script calls go(f); a goroutine is started and the call returns
\* to the script at once.
GoLua(m, d) ==
    /\ build = "driver"
    /\ Running
    /\ pc[m] = "run"
    /\ StateOf(d) = StateOf(m)
    /\ d \in Drivers /\ pc[d] = "idle" /\ job[d] # NoJob
    /\ pc' = [pc EXCEPT ![d] = "setup"]
    /\ UNCHANGED <<build, chT, job, inflight, got, performed>>

\* The script of a state ends once it has started its goroutines.
MainReturn(m) ==
    /\ build = "driver"
    /\ Running
    /\ pc[m] = "run"
    /\ \A d \in Drivers : StateOf(d) = StateOf(m) /\ job[d] # NoJob => pc[d] # "idle"
    /\ pc' = [pc EXCEPT ![m] = "done"]
    /\ UNCHANGED <<build, chT, job, inflight, got, performed>>

\* The goroutine's L.NewThread(), L.PushValue(1), lua.XMove(L, LT, 1), made
\* on the state of the script that goes on running: with the script still
\* running the calls race with it and either work or corrupt the state; with
\* the script ended, index 1 holds no function, Resume fails and RaiseError
\* panics in the goroutine.
DriverSetup(d) ==
    /\ build = "driver"
    /\ Running
    /\ pc[d] = "setup"
    /\ \E next \in IF \E m \in Mains : StateOf(m) = StateOf(d) /\ pc[m] = "run"
                   THEN {"resume", "crashed"} ELSE {"crashed"} :
         pc' = [pc EXCEPT ![d] = next]
    /\ UNCHANGED <<build, chT, job, inflight, got, performed>>

\* LT.Resume(0): the script task runs up to c:Send(v) or c:Recv(), where
\* channel_send and channel_recv push the descriptor and yield.
DriverResume(d) ==
    /\ build = "driver"
    /\ Running
    /\ pc[d] = "resume"
    /\ pc' = [pc EXCEPT ![d] = "yielded"]
    /\ UNCHANGED <<build, chT, job, inflight, got, performed>>

\* The driver reads the descriptor and calls ch.Send(val) or ch.Recv().
DriverPerform(d) ==
    /\ build = "driver"
    /\ Running
    /\ pc[d] = "yielded"
    /\ IF job[d].kind = "send"
       THEN LET val == ValueToSend(chT, job[d].val)
            IN  IF val = Invalid
                THEN /\ pc' = [pc EXCEPT ![d] = "crashed"]
                     /\ UNCHANGED inflight
                ELSE /\ pc' = [pc EXCEPT ![d] = "blocked"]
                     /\ inflight' = [inflight EXCEPT ![d] = val]
       ELSE /\ pc' = [pc EXCEPT ![d] = "blocked"]
            /\ UNCHANGED inflight
    /\ UNCHANGED <<build, chT, job, got, performed>>

\* The driver resumes the script task with the result, and the task ends.
DriverContinue(d) ==
    /\ build = "driver"
    /\ Running
    /\ d \in Drivers
    /\ pc[d] \in {"sent", "received"}
    /\ pc' = [pc EXCEPT ![d] = "done"]
    /\ got' = [got EXCEPT ![d] = IF pc[d] = "received" THEN GoToLuaTyped(inflight[d])
                                 ELSE @]
    /\ UNCHANGED <<build, chT, job, inflight, performed>>

\* What the scripts send.
SendSamples(t) ==
    IF t = IntT THEN {LNumber(Small(17)), LNumber(Small(0))}
    ELSE {LNumber(Small(17)), LString("x"), LBool(TRUE), LNil}

ChanTypes == {IntT, IfaceT}

ChanRest ==
    /\ ProxyIdle
    /\ FuncIdle
    /\ OpIdle
    /\ luaTabs = <<>>
    /\ goMem = <<>>
    /\ goMaps = <<>>
    /\ luaVal = LNil
    /\ input = Invalid
    /\ target = IfaceT
    /\ output = Invalid
    /\ status = "nil"
    /\ origin = "host"
    /\ cpc = "host"

\* TestChan and ExampleMakeChan: one state sends, the other receives, each
\* script run by L.DoString on a goroutine of its own.
InitInline ==
    /\ ChanRest
    /\ AnchorIdle
    /\ IterIdle
    /\ build = "inline"
    /\ chT \in ChanTypes
    /\ pc = [t \in Tasks |-> IF t \in Mains THEN "ready" ELSE "idle"]
    /\ \E s \in Mains, lv \in SendSamples(chT) :
         job = [t \in Tasks |-> IF t = s THEN SendJob(lv)
                                ELSE IF t \in Mains THEN RecvJob ELSE NoJob]
    /\ inflight = [t \in Tasks |-> Invalid]
    /\ got = [t \in Tasks |-> LNil]
    /\ performed = {}

\* The scripts of the driver version: go(function() c:Send(v) end) and
\* go(function() x = c:Recv() end).
InitDriver ==
    /\ ChanRest
    /\ AnchorIdle
    /\ IterIdle
    /\ build = "driver"
    /\ chT \in ChanTypes
    /\ pc = [t \in Tasks |-> IF t \in Mains THEN "run" ELSE "idle"]
    /\ \E lv \in SendSamples(chT), j2 \in {NoJob, RecvJob, SendJob(LNumber(Small(0)))} :
         job = [t \in Tasks |-> CASE t = "d1" -> SendJob(lv)
                                  [] t = "d2" -> j2
                                  [] t = "d3" -> RecvJob
                                  [] OTHER -> NoJob]
    /\ inflight = [t \in Tasks |-> Invalid]
    /\ got = [t \in Tasks |-> LNil]
    /\ performed = {}

\* The next step of the script of task t.
InlineStep(t) ==
    /\ channel__index(t) \/ InlineSend(t) \/ InlineRecv(t) \/ InlineReturn(t)
    /\ UNCHANGED <<anchorVars, iterVars, convVars, proxyVars, funcVars, opVars>>

NextInline ==
    /\ \/ \E t \in Mains : channel__index(t)
       \/ \E t \in Mains : InlineSend(t)
       \/ \E t \in Mains : InlineRecv(t)
       \/ \E s, r \in Mains : Rendezvous(s, r)
       \/ \E t \in Mains : InlineReturn(t)
    /\ UNCHANGED <<anchorVars, iterVars, convVars, proxyVars, funcVars, opVars>>

NextDriver ==
    /\ \/ \E m \in Mains, d \in Drivers : GoLua(m, d)
       \/ \E m \in Mains : MainReturn(m)
       \/ \E d \in Drivers : DriverSetup(d)
       \/ \E d \in Drivers : DriverResume(d)
       \/ \E d \in Drivers : DriverPerform(d)
       \/ \E d \in Drivers : DriverContinue(d)
    /\ UNCHANGED <<anchorVars, iterVars, convVars, proxyVars, funcVars, opVars>>

NextChan == NextInline \/ NextDriver \/
            (/\ \E s, r \in Drivers : Rendezvous(s, r)
             /\ UNCHANGED <<anchorVars, iterVars, convVars, proxyVars, funcVars, opVars>>)

\* Both versions of the channel code.
SpecChan == (InitInline \/ InitDriver) /\ [][NextChan]_vars

\* The inline version under the Go scheduler: a goroutine that can run does
\* run, and a send and a receive blocked on the same channel complete.
MeetInline == /\ \E s, r \in Mains : Rendezvous(s, r)
              /\ UNCHANGED <<anchorVars, iterVars, convVars, proxyVars, funcVars, opVars>>

SpecChanFair ==
    /\ InitInline
    /\ [][NextInline]_vars
    /\ WF_vars(InlineStep("m1"))
    /\ WF_vars(InlineStep("m2"))
    /\ WF_vars(MeetInline)

-----------------------------------------------------------------------------
(* Claims about channels.                                                   *)

\* C8: a channel proxy offers close, send and receive, and no channel
\* operation is made inline in the script's own call: only a driver blocks in
\* a channel operation, and every operation made was made by a driver.
C8_NothingInline ==
    /\ channelMethods(build) \cap {"close", "Close"} # {}
    /\ channelMethods(build) \cap {"send", "Send"} # {}
    /\ channelMethods(build) \cap {"recv", "Recv"} # {}
    /\ \A t \in Tasks : pc[t] = "blocked" => t \in Drivers
    /\ \A p \in performed : p.by = "driver"

\* C9: on every interpreter state at most one host task is in the middle of
\* a call sequence, no other task works on a state while a driver runs a
\* script task of it or has an operation pending for it, and no state has
\* two pending operations.
C9_OneTaskPerState ==
    \A s \in States :
        LET here == {t \in Tasks : StateOf(t) = s}
        IN  /\ Cardinality({t \in here : InFlight(t)}) <= 1
            /\ Cardinality({t \in here : Pending(t)}) <= 1
            /\ \A d \in here \cap Drivers :
                 (InFlight(d) \/ Pending(d)) =>
                     \A t \in here \ {d} : ~InFlight(t)

\* C10: a send and a receive made by the scripts of two interpreter states on
\* one unbuffered channel both complete in the end, whatever the
\* interleaving, and the receiver gets the value that was sent.
C10_SendRecvComplete ==
    /\ <>[](\A t \in Mains : pc[t] = "done")
    /\ [](\A r, s \in Mains :
            (pc[r] = "done" /\ job[r].kind = "recv" /\ job[s].kind = "send") =>
                got[r] = job[s].val)

-----------------------------------------------------------------------------
(* Operators on proxies of scalars: proxy.go.  Lua hands an arithmetic      *)
(* operator to the __add, __sub, ... metamethod of the first operand that   *)
(* has one.  The metamethods compute in int64, uint64, float64 or           *)
(* complex128 and pushNumberValue decides whether the result goes back as   *)
(* a proxy or as a Lua number.                                              *)
(*                                                                          *)
(* A float64 that is an integer keeps the field n of the numbers above; any  *)
(* other float64 is kept as its fraction q = num / den in lowest terms,     *)
(* den = 0 standing for +Inf (num = 1), -Inf (num = -1) and NaN (num = 0).  *)

\* The integer a number below Limb stands for.
IntOf(x) == x.hi * Limb + x.lo

Sign(i) == IF i > 0 THEN 1 ELSE IF i < 0 THEN -1 ELSE 0

Abs(i) == IF i < 0 THEN -i ELSE i

RECURSIVE GCD(_, _)
GCD(a, b) == IF b = 0 THEN a ELSE GCD(b, a % b)

Frac(n, d) ==
    IF d = 0 THEN [num |-> Sign(n), den |-> 0]
    ELSE LET g == GCD(Abs(n), Abs(d))
         IN  [num |-> (Sign(d) * n) \div g, den |-> Abs(d) \div g]

Finite(p) == p.den # 0

\* float64 arithmetic on finite operands (exact for the fractions of the
\* model); a division by zero gives an infinity or NaN.
FAdd(p, q) == Frac(p.num * q.den + q.num * p.den, p.den * q.den)
FSub(p, q) == Frac(p.num * q.den - q.num * p.den, p.den * q.den)
FMul(p, q) == Frac(p.num * q.num, p.den * q.den)
FDiv(p, q) == Frac(p.num * q.den * Sign(q.num), p.den * Abs(q.num))

\* Go's integer division and remainder, which truncate toward zero.
TruncDiv(a, b) == Sign(a) * Sign(b) * (Abs(a) \div Abs(b))
TruncRem(a, b) == a - b * TruncDiv(a, b)

\* The integer part of a finite float64.
TruncInt(p) == TruncDiv(p.num, p.den)

\* math.Mod(x, y): x - trunc(x/y) * y, NaN for y = 0.
FMod(p, q) ==
    IF q.num = 0 THEN Frac(0, 0)
    ELSE FSub(p, FMul(q, Frac(TruncInt(FDiv(p, q)), 1)))

\* The float64 value of type t with the value q, and the Lua number q.
GoFloat(t, q) ==
    IF q.den = 1 THEN [k |-> "float64", t |-> t.t, n |-> Small(q.num)]
    ELSE [k |-> "float64", t |-> t.t, q |-> q]

PushNumber(q) ==
    IF q.den = 1 THEN LNumber(Small(q.num)) ELSE [k |-> "number", q |-> q]

GComplex(t, re, im) == [k |-> "complex128", t |-> t.t, re |-> re, im |-> im]

ComplexT == [k |-> "complex128", t |-> "complex128"]

\* The Go types of the tests: type A int, type B int, and a float and a
\* complex type defined the same way.
AT == [k |-> "int64", t |-> "A"]
BT == [k |-> "int64", t |-> "B"]
FT == [k |-> "float64", t |-> "F"]
ZT == [k |-> "complex128", t |-> "Z"]

\* What a metamethod leaves behind: the Lua value it pushed, the script
\* error it raised, or the panic of the host code it ran.
Pushed(lv)       == [kind |-> "value", val |-> lv]
ScriptError(msg) == [kind |-> "error", msg |-> msg]
HostPanic(msg)   == [kind |-> "panic", msg |-> msg]

isValueProxy(lv) == lv.k = "userdata"

valueOfProxy(lv) == [v |-> lv.v, t |-> TypeOf(lv.v)]

\* The Go value and type of an operand: a proxy's, or the float64 or string
\* of a Lua number or string; of anything else the zero Value and no type.
valueOfProxyOrScalar(lv) ==
    IF isValueProxy(lv) THEN valueOfProxy(lv)
    ELSE CASE lv.k = "number" -> [v |-> GFloat(lv.n), t |-> FloatT]
           [] lv.k = "string" -> [v |-> GString(lv.s), t |-> StringT]
           [] OTHER -> [v |-> Invalid, t |-> [k |-> "invalid"]]

isPredeclaredType(t) == t = FloatT \/ t = StringT

unsizedKind(v) ==
    CASE v.k \in {"int", "int8", "int16", "int32", "int64"} -> "int64"
      [] v.k \in {"uint", "uint8", "uint16", "uint32", "uint64", "uintptr"} -> "uint64"
      [] v.k \in {"float64", "float32"} -> "float64"
      [] v.k \in {"complex128", "complex64"} -> "complex128"
      [] OTHER -> v.k

\* The float64 a Go value holds, as a fraction.
FloatOf(v) == IF "q" \in DOMAIN v THEN v.q ELSE Frac(IntOf(v.n), 1)

\* valueToNumber: [q, err], err being the script error it raises.
valueToNumber(v) ==
    CASE unsizedKind(v) \in {"int64", "uint64"} ->
            [q |-> Frac(IntOf(v.n), 1), err |-> "nil"]
      [] unsizedKind(v) = "float64" -> [q |-> FloatOf(v), err |-> "nil"]
      [] unsizedKind(v) = "string" /\ v.s \in DOMAIN Numerals ->
            [q |-> Frac(IntOf(Numerals[v.s]), 1), err |-> "nil"]
      [] OTHER -> [q |-> Frac(0, 1), err |-> "cannot convert to number"]

\* valueToComplex: [re, im, err].
valueToComplex(v) ==
    IF unsizedKind(v) = "complex128"
    THEN [re |-> v.re, im |-> v.im, err |-> "nil"]
    ELSE [re |-> valueToNumber(v).q, im |-> Frac(0, 1), err |-> valueToNumber(v).err]

commonKind(v1, v2) ==
    LET k1 == unsizedKind(v1)
        k2 == unsizedKind(v2)
    IN  IF k1 = k2 /\ k1 \in {"uint64", "int64"} THEN k1
        ELSE IF k1 = "complex128" \/ k2 = "complex128" THEN "complex128"
        ELSE "float64"

\* The builds whose conversion of an infinity or NaN to an integer differs.
Archs == {"amd64", "arm64"}

\* int64(f) of a float64 that is no finite number, which Go leaves to the
\* implementation: the smallest int64 on amd64; on arm64 the nearest int64
\* for an infinity and 0 for NaN.
IntOfNonFinite(q, arch) ==
    IF arch = "amd64" THEN [lim |-> "MinInt64"]
    ELSE IF q.num > 0 THEN [lim |-> "MaxInt64"]
    ELSE IF q.num < 0 THEN [lim |-> "MinInt64"]
    ELSE Small(0)

\* reflect's Value.Convert of the result of an operation (an int64,
\* float64 or complex128) to the type t: [val, panic].
convertResult(v, t, arch) ==
    CASE v = Invalid ->
            [val |-> Invalid, panic |-> "reflect: call of reflect.Value.Convert on zero Value"]
      [] unsizedKind(v) = "int64" /\ t.k = "int64" ->
            [val |-> [k |-> "int64", t |-> t.t, n |-> v.n], panic |-> "nil"]
      [] unsizedKind(v) = "int64" /\ t.k = "float64" ->
            [val |-> GoFloat(t, Frac(IntOf(v.n), 1)), panic |-> "nil"]
      [] unsizedKind(v) = "float64" /\ t.k = "int64" ->
            [val |-> [k |-> "int64", t |-> t.t,
                      n |-> IF Finite(FloatOf(v)) THEN Small(TruncInt(FloatOf(v)))
                            ELSE IntOfNonFinite(FloatOf(v), arch)],
             panic |-> "nil"]
      [] unsizedKind(v) = "float64" /\ t.k = "float64" ->
            [val |-> GoFloat(t, FloatOf(v)), panic |-> "nil"]
      [] unsizedKind(v) = "complex128" /\ t.k = "complex128" ->
            [val |-> GComplex(t, v.re, v.im), panic |-> "nil"]
      [] OTHER -> [val |-> Invalid, panic |-> "reflect.Value.Convert: value cannot be converted"]

\* pushNumberValue(L, i, t1, t2) for the result i of an operation.
pushNumberValue(i, t1, t2, arch) ==
    LET v == i
        isComplex == unsizedKind(v) = "complex128"
        mt == IF isComplex THEN "complexMT" ELSE "numberMT"
        wrap(t, m) == LET c == convertResult(v, t, arch)
                      IN  IF c.panic # "nil" THEN HostPanic(c.panic)
                          ELSE Pushed(makeValueProxy(c.val, m))
    IN  IF t1 = t2 \/ isPredeclaredType(t2) THEN wrap(t1, mt)
        ELSE IF isPredeclaredType(t1) THEN wrap(t2, mt)
        ELSE IF isComplex THEN wrap(ComplexT, "complexMT")
        ELSE IF valueToNumber(v).err # "nil" THEN ScriptError(valueToNumber(v).err)
        ELSE Pushed(PushNumber(valueToNumber(v).q))

\* complex128 multiplication and division of Go; a division by zero gives
\* infinities and NaNs as C99 G.5.1 has it.
CMul(a, b) == [re |-> FSub(FMul(a.re, b.re), FMul(a.im, b.im)),
               im |-> FAdd(FMul(a.re, b.im), FMul(a.im, b.re))]

CDiv(a, b) ==
    LET d == FAdd(FMul(b.re, b.re), FMul(b.im, b.im))
    IN  IF d.num = 0
        THEN [re |-> Frac(a.re.num, 0), im |-> Frac(a.im.num, 0)]
        ELSE [re |-> FDiv(FAdd(FMul(a.re, b.re), FMul(a.im, b.im)), d),
              im |-> FDiv(FSub(FMul(a.im, b.re), FMul(a.re, b.im)), d)]

\* The operation of a metamethod on two Go integers: [val, panic].
IntResult(i) == [val |-> i, panic |-> "nil"]

DivideByZero == [val |-> 0, panic |-> "runtime error: integer divide by zero"]

intOp(event, a, b) ==
    CASE event = "__add" -> IntResult(a + b)
      [] event = "__sub" -> IntResult(a - b)
      [] event = "__mul" -> IntResult(a * b)
      [] event = "__div" -> IF b = 0 THEN DivideByZero ELSE IntResult(TruncDiv(a, b))
      [] event = "__mod" -> IF b = 0 THEN DivideByZero ELSE IntResult(TruncRem(a, b))

floatOp(event, p, q) ==
    CASE event = "__add" -> FAdd(p, q)
      [] event = "__sub" -> FSub(p, q)
      [] event = "__mul" -> FMul(p, q)
      [] event = "__div" -> FDiv(p, q)
      [] event = "__mod" -> FMod(p, q)

complexOp(event, a, b) ==
    CASE event = "__add" -> [re |-> FAdd(a.re, b.re), im |-> FAdd(a.im, b.im)]
      [] event = "__sub" -> [re |-> FSub(a.re, b.re), im |-> FSub(a.im, b.im)]
      [] event = "__mul" -> CMul(a, b)
      [] event = "__div" -> CDiv(a, b)

\* The body the metamethods number__add, number__sub, number__mul,
\* number__div and number__mod share: the operands are read, the operation
\* is made in the common kind and the result is pushed.  number__mod has
\* no complex case, which leaves the result nil.
numberOp(event, x, y, arch) ==
    LET o1 == valueOfProxyOrScalar(x)
        o2 == valueOfProxyOrScalar(y)
        v1 == o1.v
        v2 == o2.v
        kind == commonKind(v1, v2)
        n1 == valueToNumber(v1)
        n2 == valueToNumber(v2)
        c1 == valueToComplex(v1)
        c2 == valueToComplex(v2)
    IN  CASE kind \in {"int64", "uint64"} ->
               LET r == intOp(event, IntOf(v1.n), IntOf(v2.n))
               IN  IF r.panic # "nil" THEN HostPanic(r.panic)
                   ELSE pushNumberValue([k |-> kind, t |-> kind, n |-> Small(r.val)],
                                        o1.t, o2.t, arch)
          [] kind = "float64" ->
               IF n1.err # "nil" THEN ScriptError(n1.err)
               ELSE IF n2.err # "nil" THEN ScriptError(n2.err)
               ELSE pushNumberValue(GoFloat(FloatT, floatOp(event, n1.q, n2.q)),
                                    o1.t, o2.t, arch)
          [] kind = "complex128" ->
               IF event = "__mod" THEN pushNumberValue(Invalid, o1.t, o2.t, arch)
               ELSE IF c1.err # "nil" THEN ScriptError(c1.err)
               ELSE IF c2.err # "nil" THEN ScriptError(c2.err)
               ELSE LET r == complexOp(event, c1, c2)
                    IN  pushNumberValue(GComplex(ComplexT, r.re, r.im), o1.t, o2.t, arch)

number__add(x, y, arch) == numberOp("__add", x, y, arch)

number__sub(x, y, arch) == numberOp("__sub", x, y, arch)

number__mul(x, y, arch) == numberOp("__mul", x, y, arch)

number__div(x, y, arch) == numberOp("__div", x, y, arch)

number__mod(x, y, arch) == numberOp("__mod", x, y, arch)

\* The arithmetic events the metatables of InitProxies register: numberMT
\* has all of them, complexMT has no __mod.
ArithEvents(mt) ==
    CASE mt = "numberMT" -> {"__add", "__sub", "__mul", "__div", "__mod"}
      [] mt = "complexMT" -> {"__add", "__sub", "__mul", "__div"}
      [] OTHER -> {}

\* Lua's arith: the metamethod of the first operand is tried, then that of
\* the second; with none the script gets Lua's own error.
HasEvent(lv, event) == lv.k = "userdata" /\ event \in ArithEvents(lv.mt)

Arith(event, x, y, arch) ==
    IF ~HasEvent(x, event) /\ ~HasEvent(y, event)
    THEN ScriptError("attempt to perform arithmetic on a userdata value")
    ELSE CASE event = "__add" -> number__add(x, y, arch)
           [] event = "__sub" -> number__sub(x, y, arch)
           [] event = "__mul" -> number__mul(x, y, arch)
           [] event = "__div" -> number__div(x, y, arch)
           [] event = "__mod" -> number__mod(x, y, arch)

\* The operands of the scenario: proxies of values of the types A, B, F, Z
\* and complex128, and Lua numbers.
ScalarHandles ==
    {makeValueProxy([k |-> "int64", t |-> "A", n |-> Small(i)], "numberMT") : i \in {0, 5, 7}}
    \cup {makeValueProxy([k |-> "int64", t |-> "B", n |-> Small(3)], "numberMT"),
          makeValueProxy([k |-> "float64", t |-> "F", n |-> Small(2)], "numberMT"),
          makeValueProxy(GComplex(ZT, Frac(1, 1), Frac(2, 1)), "complexMT"),
          makeValueProxy(GComplex(ComplexT, Frac(0, 1), Frac(1, 1)), "complexMT")}

BareNumbers == {LNumber(Small(3))}

Events == {"__add", "__sub", "__mul", "__div", "__mod"}

OpRest ==
    /\ ProxyIdle
    /\ AnchorIdle
    /\ IterIdle
    /\ FuncIdle
    /\ ChanIdle
    /\ goMem = <<>>
    /\ goMaps = <<>>
    /\ luaTabs = <<>>
    /\ cpc = "idle"
    /\ origin = "host"
    /\ input = Invalid
    /\ luaVal = LNil
    /\ target = IfaceT
    /\ output = Invalid
    /\ status = "nil"

InitArith ==
    /\ OpRest
    /\ operator \in Events
    /\ operands \in {<<x, y>> : x, y \in ScalarHandles \cup BareNumbers}
    /\ \E i \in 1..2 : isValueProxy(operands[i])
    /\ opc = "ready"
    /\ opResult = <<>>

\* The script evaluates x op y.
ScriptArith ==
    /\ opc = "ready"
    /\ operator \in Events
    /\ \E arch \in Archs :
         opResult' = Arith(operator, operands[1], operands[2], arch)
    /\ opc' = "done"
    /\ UNCHANGED <<operator, operands>>

NextArith == /\ ScriptArith
             /\ UNCHANGED <<anchorVars, iterVars, convVars, proxyVars, funcVars, chanVars>>

SpecArith == InitArith /\ [][NextArith]_vars

\* The named type of an operand, and whether an operand is a bare number.
OperandType(lv) == valueOfProxyOrScalar(lv).t

IsBare(lv) == lv.k = "number"

IsComplexOperand(lv) == OperandType(lv).k = "complex128"

\* The operand as a complex number with fractions as parts.
OperandValue(lv) == valueToComplex(valueOfProxyOrScalar(lv).v)

\* The arithmetic result of the operation, as a complex number.
Exact(event, a, b) ==
    CASE event = "__add" -> [re |-> FAdd(a.re, b.re), im |-> FAdd(a.im, b.im)]
      [] event = "__sub" -> [re |-> FSub(a.re, b.re), im |-> FSub(a.im, b.im)]
      [] event = "__mul" -> CMul(a, b)
      [] event = "__div" -> CDiv(a, b)
      [] event = "__mod" -> [re |-> FMod(a.re, b.re), im |-> Frac(0, 1)]

\* The number a Lua value or a Go value holds, as a complex number.
HeldValue(v) ==
    CASE v.k = "complex128" -> [re |-> v.re, im |-> v.im]
      [] v.k = "int64" -> [re |-> IF "lo" \in DOMAIN v.n THEN Frac(IntOf(v.n), 1)
                                  ELSE Frac(0, 0),
                           im |-> Frac(0, 1)]
      [] OTHER -> [re |-> FloatOf(v), im |-> Frac(0, 1)]

TruncParts(c) == [re |-> IF Finite(c.re) THEN Frac(TruncInt(c.re), 1) ELSE c.re,
                  im |-> c.im]

\* The type the result has by the rules: the common named type, the named
\* type of the operand that is no bare number, complex128 for two named
\* types one of which is complex; no type stands for a Lua number.
ResultType(x, y) ==
    CASE OperandType(x) = OperandType(y) -> OperandType(x)
      [] IsBare(y) -> OperandType(x)
      [] IsBare(x) -> OperandType(y)
      [] IsComplexOperand(x) \/ IsComplexOperand(y) -> ComplexT
      [] OTHER -> [k |-> "number"]

\* Integer arithmetic applies: both operands are integers, or the result is
\* wrapped in an integer type.
IsIntOperand(lv) == OperandType(lv).k = "int64"

Expected(event, x, y) ==
    LET ex == Exact(event, OperandValue(x), OperandValue(y))
    IN  IF ResultType(x, y).k = "int64" \/ (IsIntOperand(x) /\ IsIntOperand(y))
        THEN TruncParts(ex) ELSE ex

ZeroDivisor == /\ operator \in {"__div", "__mod"}
               /\ OperandValue(operands[2]).re.num = 0
               /\ OperandValue(operands[2]).im.num = 0

ComplexMod == /\ operator = "__mod"
              /\ IsComplexOperand(operands[1]) \/ IsComplexOperand(operands[2])

\* C11: an arithmetic operator applied to two numbers, at least one of them
\* a proxy of a scalar, gives a result and neither a script error nor a
\* panic; the result is a proxy of the common named type, of the named type
\* of the operand that is no bare Lua number, a plain Lua number for two
\* different named types, or a complex proxy when two different named types
\* include a complex one; and the result holds the arithmetic result of the
\* operation (the integer part of it for two integers and in an integer
\* type).  The remainder of complex numbers is left out, and no particular
\* value is asked of a division by zero.
C11_ArithOnHandles ==
    (opc = "done" /\ operator \in Events /\ ~ComplexMod) =>
        LET x == operands[1]
            y == operands[2]
            rt == ResultType(x, y)
        IN  /\ opResult.kind = "value"
            /\ IF rt.k = "number"
               THEN /\ opResult.val.k = "number"
                    /\ ZeroDivisor \/
                       Expected(operator, x, y) =
                           [re |-> FloatOf(opResult.val), im |-> Frac(0, 1)]
               ELSE /\ opResult.val.k = "userdata"
                    /\ TypeOf(opResult.val.v) = rt
                    /\ ZeroDivisor \/
                       HeldValue(opResult.val.v) = Expected(operator, x, y)

\* The case of the tests: A(5) + B(3) is the Lua number 8.
C11_Witness ==
    /\ opc = "done"
    /\ operator = "__add"
    /\ OperandType(operands[1]) = AT
    /\ OperandType(operands[2]) = BT
    /\ opResult = Pushed(LNumber(Small(8)))

-----------------------------------------------------------------------------
(* Structs, arrays and the other kinds: the host hands a value to GoToLua   *)
(* or GoToLuaProxy (luar.go, the newest API).                               *)

\* The struct types of the scenario.
PersonT == StructT("Person", <<Field("Name", "", TRUE, StringT),
                               Field("Age", "", TRUE, IntT)>>, FALSE)

\* type Holder struct { Items []int64; Next *Person }
HolderT == StructT("Holder", <<Field("Items", "", TRUE, SliceT(IntT)),
                               Field("Next", "", TRUE, PtrT(PersonT))>>, FALSE)

\* type Renamed struct { Name string `lua:"nm"` }
RenamedT == StructT("Renamed", <<Field("Name", "nm", TRUE, StringT)>>, FALSE)

\* type TagFirst struct { X string `lua:"Y"`; Y string }
TagFirstT == StructT("TagFirst", <<Field("X", "Y", TRUE, StringT),
                                   Field("Y", "", TRUE, StringT)>>, FALSE)

\* type TagLast struct { Y string; X string `lua:"Y"` }
TagLastT == StructT("TagLast", <<Field("Y", "", TRUE, StringT),
                                 Field("X", "Y", TRUE, StringT)>>, FALSE)

\* type Hidden struct { Pub int64; priv int64 }
HiddenT == StructT("Hidden", <<Field("Pub", "", TRUE, IntT),
                               Field("priv", "", FALSE, IntT)>>, FALSE)

\* type HiddenFunc struct { Pub int64; fn func() }
HiddenFuncT == StructT("HiddenFunc", <<Field("Pub", "", TRUE, IntT),
                                       Field("fn", "", FALSE, FuncT)>>, FALSE)

\* type HiddenAny struct { Pub int64; any interface{} }
HiddenAnyT == StructT("HiddenAny", <<Field("Pub", "", TRUE, IntT),
                                     Field("any", "", FALSE, IfaceT)>>, FALSE)

\* errors.errorString: struct { s string }, with Error() on the pointer.
ErrorStringT == StructT("errorString", <<Field("s", "", FALSE, StringT)>>, TRUE)

Ints == <<GInt(Small(1)), GInt(Small(2))>>

IntSlice == GSlice(IntT, Len(<<"zerobase", "ints">>), Len(Ints))

Person == GStruct(PersonT, <<GString("ann"), GInt(Small(5))>>)

\* Host memory of the scenario: cell 1 is the zero-size base, cell 2 the
\* backing array of IntSlice, the others the pointees of the sample
\* pointers and the backing array of a [][]int64.
Cells == <<"zerobase", "ints", "person", "array", "error", "nestedArray", "holder",
           "nestedSlice", "hidden", "renamed", "tagFirst">>

AddrOf(name) == CHOOSE i \in DOMAIN Cells : Cells[i] = name

RecordMem ==
    << <<>>,
       Ints,
       <<Person>>,
       <<GArray(IntT, Ints)>>,
       <<GStruct(ErrorStringT, <<GString("boom")>>)>>,
       <<GArray(SliceT(IntT), <<IntSlice, GSlice(IntT, IntSlice.a, 1)>>)>>,
       <<GStruct(HolderT, <<IntSlice, GPtr(PersonT, AddrOf("person"))>>)>>,
       <<IntSlice>>,
       <<GStruct(HiddenT, <<GInt(Small(1)), GInt(Small(2))>>)>>,
       <<GStruct(RenamedT, <<GString("x")>>)>>,
       <<GStruct(TagFirstT, <<GString("tagged"), GString("plain")>>)>> >>

\* Host maps: map[string]int64{"a": 1}, map[string][]int64{"k": IntSlice},
\* the maps {"foo": 17, "bar": 170} and {"Foo": 17} of the map types with
\* methods, and two empty maps.
RecordMaps == << [x \in {"a"} |-> GInt(Small(1))], [x \in {"k"} |-> IntSlice],
                [x \in {"foo", "bar"} |-> IF x = "foo" THEN GInt(Small(17))
                                          ELSE GInt(Small(170))],
                [x \in {"Foo"} |-> GInt(Small(17))],
                <<>>, <<>> >>

\* The map of RecordMaps that has the key, and the empty maps.
MapWith(key) == CHOOSE m \in DOMAIN RecordMaps : key \in DOMAIN RecordMaps[m]

EmptyMaps == {m \in DOMAIN RecordMaps : DOMAIN RecordMaps[m] = {}}

\* The values without fields or elements.
ScalarInputs ==
    {GInt(Small(5)), GString("s"), GBool(TRUE), GFloat(Small(2)),
     [k |-> "int64", t |-> "A", n |-> Small(5)],
     GComplex(ComplexT, Frac(1, 1), Frac(2, 1)),
     NilIface, GPtr(IntT, 0), GPtr(PersonT, 0), GSlice(IntT, 0, 0), GMap(IntT, 0),
     GFunc(0), GFunc(1), GChan(IntT, 0), GChan(IntT, 1), GUintptr(Small(1)), GNull}

\* Slices, maps, structs and arrays, by value and through a pointer.
CompositeInputs ==
    {IntSlice, GSlice(SliceT(IntT), AddrOf("nestedSlice"), 1),
     GMap(IntT, 1), GMap(SliceT(IntT), 2),
     GArray(IntT, Ints), GPtr(ArrayT(IntT, 2), AddrOf("array")),
     RecordMem[AddrOf("nestedArray")][1], GPtr(ArrayT(SliceT(IntT), 2), AddrOf("nestedArray")),
     Person, GPtr(PersonT, AddrOf("person")),
     RecordMem[AddrOf("holder")][1], GPtr(HolderT, AddrOf("holder")),
     RecordMem[AddrOf("error")][1], GPtr(ErrorStringT, AddrOf("error")),
     GStruct(RenamedT, <<GString("x")>>),
     GStruct(TagFirstT, <<GString("tagged"), GString("plain")>>),
     GStruct(TagLastT, <<GString("plain"), GString("tagged")>>),
     RecordMem[AddrOf("hidden")][1], GPtr(HiddenT, AddrOf("hidden")),
     GStruct(HiddenFuncT, <<GInt(Small(1)), GFunc(1)>>),
     GStruct(HiddenAnyT, <<GInt(Small(1)), NilIface>>),
     GStruct(HiddenAnyT, <<GInt(Small(1)), Box(GInt(Small(2)))>>)}

HostInputs == ScalarInputs \cup CompositeInputs \cup
              {Box(IntSlice), Box(Person), Box(GPtr(PersonT, AddrOf("person")))}

\* What a conversion to Lua left: the value it pushed, or the panic.
PushOutcome(r) ==
    IF r.st.fault # "nil" THEN HostPanic(r.st.fault) ELSE Pushed(r.val)

InitRecord ==
    /\ ProxyIdle
    /\ AnchorIdle
    /\ IterIdle
    /\ FuncIdle
    /\ ChanIdle
    /\ goMem = RecordMem
    /\ goMaps = RecordMaps
    /\ luaTabs = <<>>
    /\ cpc = "idle"
    /\ origin = "host"
    /\ input = Invalid
    /\ luaVal = LNil
    /\ target = IfaceT
    /\ output = Invalid
    /\ status = "nil"
    /\ operator = "none"
    /\ operands = <<>>
    /\ opc = "ready"
    /\ opResult = <<>>

\* luar.GoToLua(L, a)
HostGoToLua ==
    /\ opc = "ready"
    /\ \E a \in HostInputs :
         LET r == GoToLua(goMem, goMaps, luaTabs, a)
         IN  /\ operator' = "GoToLua"
             /\ operands' = <<a>>
             /\ luaTabs' = r.st.tabs
             /\ opResult' = PushOutcome(r)
    /\ opc' = "done"
    /\ UNCHANGED <<goMem, goMaps, cpc, origin, input, luaVal, target, output, status>>

\* luar.GoToLuaProxy(L, a)
HostGoToLuaProxy ==
    /\ opc = "ready"
    /\ \E a \in HostInputs :
         LET r == GoToLuaProxy(goMem, goMaps, luaTabs, a)
         IN  /\ operator' = "GoToLuaProxy"
             /\ operands' = <<a>>
             /\ luaTabs' = r.st.tabs
             /\ opResult' = PushOutcome(r)
    /\ opc' = "done"
    /\ UNCHANGED <<goMem, goMaps, cpc, origin, input, luaVal, target, output, status>>

\* luaToString, as far as the scenario goes: the text of a string is read
\* from the top of the stack, whatever idx is.
luaToString(stack, idx) ==
    CASE stack[idx].k = "number" -> L_ToString(stack[idx])
      [] stack[idx].k = "string" -> L_ToString(stack[Len(stack)])
      [] stack[idx].k = "boolean" -> IF stack[idx].b THEN "true" ELSE "false"
      [] stack[idx].k = "nil" -> "nil"
      [] OTHER -> stack[idx].k \o ": " \o DecimalString(stack[idx].id)

luaDesc(stack, idx) ==
    "Lua value '" \o luaToString(stack, idx) \o "' (" \o stack[idx].k \o ")"

\* ConvError{From, To}
ConvError(from, to) == [err |-> "ConvError", From |-> from, To |-> to]

\* The type behind the pointers of a target.
RECURSIVE Deref(_)
Deref(t) == IF t.k = "ptr" THEN Deref(t.e) ELSE t

\* The tables a script built for the host to convert.
HashTable(h) == [arr |-> <<>>, hash |-> h]

ScriptHeap ==
    << HashTable([x \in {"Name", "Age"} |->
                    IF x = "Name" THEN LString("ann") ELSE LNumber(Small(5))]),
       HashTable([x \in {"nm"} |-> LString("x")]),
       HashTable([x \in {"unrelated"} |-> LNumber(Small(1))]),
       HashTable([x \in {"Y"} |-> LString("v")]),
       HashTable([x \in {"Pub", "priv"} |->
                    IF x = "Pub" THEN LNumber(Small(4)) ELSE LNumber(Small(3))]),
       HashTable([x \in {"Age"} |-> LString("old")]),
       HashTable([x \in {"X"} |-> LString("v")]),
       HashTable([x \in {"Name", "unrelated"} |->
                    IF x = "Name" THEN LString("bob") ELSE LBool(TRUE)]),
       [arr |-> <<LNumber(Small(1))>>, hash |-> <<>>],
       NewTable >>

ScriptScalars == {LBool(TRUE), LNumber(Small(5)), LString("x"), LString("18"), LNil}

ScriptValues == ScriptScalars \cup {LTable(i) : i \in DOMAIN ScriptHeap}

\* The Lua stack at the call: the value alone, or a scalar above it.
ScriptStacks == {<<lv>> : lv \in ScriptValues} \cup
                {<<lv, top>> : lv \in ScriptValues, top \in {LNumber(Small(7)), LString("top")}}

RecordTargets == {BoolT, IntT, FloatT, StringT, IfaceT, PersonT, RenamedT, TagFirstT,
                  TagLastT, HiddenT, PtrT(PersonT)}

\* var out T; err := luar.LuaToGo(L, idx, &out)
HostLuaToGo ==
    /\ opc = "ready"
    /\ \E stack \in ScriptStacks, t \in RecordTargets :
         \E idx \in 1..Len(stack) :
           LET r == LuaToGo(goMem, goMaps, ScriptHeap, stack[idx], t, Zero(t))
           IN  /\ operator' = "LuaToGo"
               /\ operands' = <<stack, idx, t>>
               /\ luaTabs' = ScriptHeap
               /\ goMem' = r.st.mem
               /\ goMaps' = r.st.maps
               /\ output' = r.val
               /\ opResult' =
                    CASE r.err = "panic" -> HostPanic("reflect.Set")
                      [] r.err = "ConvError" ->
                           [kind |-> "returned",
                            err |-> ConvError(luaDesc(stack, idx), Deref(t))]
                      [] OTHER -> [kind |-> "returned", err |-> r.err]
    /\ opc' = "done"
    /\ UNCHANGED <<cpc, origin, input, luaVal, target, status>>

\* An assignment through a proxy that returned without an error.
Assigned == [kind |-> "ok"]

\* pushGoMethod: the structs of the scenario have one method at most,
\* Error, on the pointer.
pushGoMethod(st, name) ==
    IF st.typ.isError /\ name = "Error"
    THEN Pushed(LFunction([k |-> "method", name |-> name]))
    ELSE ScriptError("no method named '" \o name \o "' for type " \o st.typ.t)

\* struct__index: proxy[name].  The fields of a struct held by value are
\* not settable, like the unexported ones: the name is taken for a method.
struct__index(mem, px, name) ==
    LET est == FollowPtr(mem, px.v)
        f   == FieldByName(est.typ, name)
    IN  IF f = 0 \/ ~(px.v.k = "ptr" /\ CanSet(est.typ, f))
        THEN pushGoMethod(est, name)
        ELSE Pushed(GoToLuaTyped(est.f[f]))

\* struct__newindex: proxy[name] = lv.  The field is looked up by its
\* declared name; Set panics on a field that is not settable.
struct__newindex(mem, px, name, lv) ==
    LET st == FollowPtr(mem, px.v)
        f  == FieldByName(st.typ, name)
    IN  IF f = 0
        THEN [mem |-> mem,
              out |-> ScriptError("no field named '" \o name \o "' for type " \o st.typ.t)]
        ELSE IF ~st.typ.fields[f].exported
        THEN [mem |-> mem,
              out |-> HostPanic("reflect.Value.Set using value obtained using unexported field")]
        ELSE IF px.v.k # "ptr"
        THEN [mem |-> mem,
              out |-> HostPanic("reflect.Value.Set using unaddressable value")]
        ELSE [mem |-> [mem EXCEPT ![px.v.a][1].f[f] =
                          luaToGoValue(st.typ.fields[f].typ, lv)],
              out |-> Assigned]

\* The struct proxies a script holds: pointers to structs, and a struct
\* held by value.
StructHandles ==
    {makeValueProxy(GPtr(PersonT, AddrOf("person")), "structMT"),
     makeValueProxy(GPtr(HiddenT, AddrOf("hidden")), "structMT"),
     makeValueProxy(GPtr(RenamedT, AddrOf("renamed")), "structMT"),
     makeValueProxy(GPtr(TagFirstT, AddrOf("tagFirst")), "structMT"),
     makeValueProxy(Person, "structMT")}

MemberNames == {"Name", "Age", "nm", "Pub", "priv", "X", "Y", "nope"}

AssignedValues == {LString("v"), LNumber(Small(9))}

\* A script evaluates h[name] on a struct proxy h.
ScriptStructIndex ==
    /\ opc = "ready"
    /\ \E px \in StructHandles, name \in MemberNames :
         /\ operator' = "struct__index"
         /\ operands' = <<px, name>>
         /\ opResult' = struct__index(goMem, px, name)
    /\ opc' = "done"
    /\ UNCHANGED convVars

\* A script executes h[name] = lv on a struct proxy h.
ScriptStructNewIndex ==
    /\ opc = "ready"
    /\ \E px \in StructHandles, name \in MemberNames, lv \in AssignedValues :
         LET r == struct__newindex(goMem, px, name, lv)
         IN  /\ operator' = "struct__newindex"
             /\ operands' = <<px, name, lv>>
             /\ goMem' = r.mem
             /\ opResult' = r.out
    /\ opc' = "done"
    /\ UNCHANGED <<goMaps, luaTabs, cpc, origin, input, luaVal, target, output, status>>

NextRecord == /\ \/ HostGoToLua \/ HostGoToLuaProxy \/ HostLuaToGo
                 \/ ScriptStructIndex \/ ScriptStructNewIndex
              /\ UNCHANGED <<anchorVars, iterVars, proxyVars, funcVars, chanVars>>

SpecRecord == InitRecord /\ [][NextRecord]_vars

-----------------------------------------------------------------------------
(* Claims about handles and copies of composites.                           *)

PushDone == opc = "done" /\ operator \in {"GoToLua", "GoToLuaProxy"}

\* The value handed over, unboxed; and what its pointers lead to.
PushedHost == IF operands[1].k = "interface" /\ operands[1].d # <<>>
              THEN operands[1].d[1] ELSE operands[1]

Reached == FollowPtr(goMem, PushedHost)

IsComposite == Reached.k \in {"slice", "map", "struct", "array"}

\* A slice or a map, or a struct or an array reached through a pointer.
ReferenceLike ==
    \/ Reached.k \in {"slice", "map"}
    \/ Reached.k \in {"struct", "array"} /\ PushedHost.k = "ptr"

CompositeHandle(lv) ==
    lv.k = "userdata" /\ lv.mt \in {"sliceMT", "mapMT", "structMT"}

GotHandle == opResult.kind = "value" /\ CompositeHandle(opResult.val)

GotNewTable == /\ opResult.kind = "value"
               /\ opResult.val.k = "table"
               /\ opResult.val.id \in DOMAIN luaTabs

\* The values stored in the tables the conversion made.
Stored(tab) == {tab.arr[i] : i \in DOMAIN tab.arr} \cup
               {tab.hash[x] : x \in DOMAIN tab.hash}

NestedValues == UNION {Stored(luaTabs[i]) : i \in DOMAIN luaTabs}

\* The host values one level inside the composite handed over.
NestedHost ==
    CASE Reached.k = "slice" -> {goMem[Reached.a][i] : i \in 1..Reached.len}
      [] Reached.k = "array" -> {Reached.elems[i] : i \in DOMAIN Reached.elems}
      [] Reached.k = "map" ->
            IF Reached.m = 0 THEN {}
            ELSE {goMaps[Reached.m][x] : x \in DOMAIN goMaps[Reached.m]}
      [] Reached.k = "struct" -> {Reached.f[i] : i \in DOMAIN Reached.f}
      [] OTHER -> {}

HasNestedReference ==
    \E h \in NestedHost : \/ (h.k \in {"slice", "map"} /\ ~isNil(h))
                          \/ (h.k = "ptr" /\ h.a # 0)

\* Nested values converted in the mode of the call: under GoToLuaProxy the
\* reference-like values inside a copied composite are handles.
NestedInCallMode ==
    (operator = "GoToLuaProxy" /\ GotNewTable /\ HasNestedReference)
        => \E lv \in Stored(luaTabs[opResult.val.id]) : CompositeHandle(lv)

ErrorPointer == /\ Reached.k = "struct"
                /\ PushedHost.k = "ptr"
                /\ Reached.typ.isError

C13_ToLuaNeverFails == PushDone => opResult.kind = "value"

-----------------------------------------------------------------------------
(* Claims about tables converted into structs and structs copied to tables. *)

\* LuaToGo converted a table into a struct (or a pointer to one).
ToStructDone == /\ opc = "done"
                /\ operator = "LuaToGo"
                /\ operands[1][operands[2]].k = "table"
                /\ Deref(operands[3]).k = "struct"
                /\ opResult.kind = "returned"

StructTarget == Deref(operands[3])

SourceTable == luaTabs[operands[1][operands[2]].id]

\* The struct the conversion filled.
Filled == FollowPtr(goMem, output)

\* The value a field of the given type holds once set from a Lua value;
\* Invalid when the value does not convert.
FieldValue(t, lv) ==
    CASE t = StringT /\ lv.k = "string" -> GString(lv.s)
      [] t = IntT /\ lv.k = "number" -> GInt(lv.n)
      [] OTHER -> Invalid

\* The key names the field: it is the field's tag, or the name of a field
\* without a tag.
KeyNames(key, field) ==
    IF field.tag # "" THEN key = field.tag ELSE key = field.name

MatchesNoField(key) ==
    \A i \in DOMAIN StructTarget.fields :
        key # StructTarget.fields[i].name /\ key # StructTarget.fields[i].tag

\* C14: a table converted into a struct has every key resolved against the
\* field names and 'lua' tags: a key equal to a field's tag sets that field,
\* a key matching no field is ignored, and a table of unrelated keys only
\* converts without error and leaves every field zero.
C14_KeysResolved ==
    ToStructDone =>
        /\ \A key \in DOMAIN SourceTable.hash : \A i \in DOMAIN StructTarget.fields :
             LET field == StructTarget.fields[i]
                 val == FieldValue(field.typ, SourceTable.hash[key])
             IN  (field.exported /\ field.tag = key /\ val # Invalid)
                     => Filled.f[i] = val
        /\ (\A key \in DOMAIN SourceTable.hash : MatchesNoField(key))
             => opResult.err = "nil" /\ Filled = Zero(StructTarget)


\* GoToLua copied a struct into a table.
StructCopied == /\ PushDone
                /\ operator = "GoToLua"
                /\ Reached.k = "struct"
                /\ GotNewTable

CopiedTable == luaTabs[opResult.val.id].hash

\* The key another field of the type is stored under.
OthersKey(t, i, key) ==
    \E j \in DOMAIN t.fields :
        j # i /\ key = (IF t.fields[j].tag # "" THEN t.fields[j].tag
                        ELSE t.fields[j].name)

\* The Lua value a copied scalar field becomes.
CopiedValue(v) ==
    CASE v.k = "string" -> LString(v.s)
      [] v.k = "int64" -> LNumber(v.n)
      [] OTHER -> LNil

\* C15: in both directions the 'lua' tag has priority over the declared
\* name, whatever the order of the fields: a tagged field is copied to the
\* table under its tag only, and a table key equal to a tag sets the tagged
\* field and not a field whose name is that key.
C15_TagHasPriority ==
    /\ StructCopied =>
         \A i \in DOMAIN Reached.typ.fields :
            LET field == Reached.typ.fields[i]
            IN  (field.exported /\ field.tag # "") =>
                   /\ field.tag \in DOMAIN CopiedTable
                   /\ CopiedTable[field.tag] = CopiedValue(Reached.f[i])
                   /\ (field.name \in DOMAIN CopiedTable)
                          => OthersKey(Reached.typ, i, field.name)
    /\ ToStructDone =>
         \A key \in DOMAIN SourceTable.hash : \A i \in DOMAIN StructTarget.fields :
            LET field == StructTarget.fields[i]
                val == FieldValue(field.typ, SourceTable.hash[key])
            IN  (field.exported /\ field.tag = key /\ val # Invalid) =>
                   /\ Filled.f[i] = val
                   /\ \A j \in DOMAIN StructTarget.fields :
                         (j # i /\ StructTarget.fields[j].name = key)
                             => Filled.f[j] = Zero(StructTarget.fields[j].typ)


\* The key a field is stored under in a copied table.
KeyOfField(field) == IF field.tag # "" THEN field.tag ELSE field.name

HandleRead == opc = "done" /\ operator = "struct__index"

HandleWrite == opc = "done" /\ operator = "struct__newindex"

\* The struct behind the proxy of a handle operation, as it was before.
HandleStruct == FollowPtr(RecordMem, operands[1].v)

NamesUnexported ==
    \E i \in DOMAIN HandleStruct.typ.fields :
        /\ HandleStruct.typ.fields[i].name = operands[2]
        /\ ~HandleStruct.typ.fields[i].exported

\* C16: unexported struct fields are ignored on every path: they are no keys
\* of a table copied from a struct, they are not set from a table, they
\* cannot be read or written through a struct handle (the script gets an
\* error and the struct stays as it was), and a struct holding them converts
\* without a failure.
C16_UnexportedIgnored ==
    /\ (PushDone /\ Reached.k = "struct") => opResult.kind = "value"
    /\ (PushDone /\ Reached.k = "struct" /\ GotNewTable) =>
          \A i \in DOMAIN Reached.typ.fields :
             ~Reached.typ.fields[i].exported
                => \/ KeyOfField(Reached.typ.fields[i]) \notin DOMAIN CopiedTable
                   \/ OthersKey(Reached.typ, i, KeyOfField(Reached.typ.fields[i]))
    /\ ToStructDone =>
          \A i \in DOMAIN StructTarget.fields :
             ~StructTarget.fields[i].exported
                => Filled.f[i] = Zero(StructTarget.fields[i].typ)
    /\ ((HandleRead \/ HandleWrite) /\ NamesUnexported) =>
          opResult.kind = "error" /\ goMem = RecordMem


-----------------------------------------------------------------------------
(* Claims about scalars converted into Go variables.                        *)

\* LuaToGo converted a boolean, a number or a string.
ScalarConverted == /\ opc = "done"
                   /\ operator = "LuaToGo"
                   /\ operands[1][operands[2]].k \in {"boolean", "number", "string"}

SourceValue == operands[1][operands[2]]

ScalarTarget == Deref(operands[3])

\* A boolean into a non-boolean, a number into a non-numeric, a string into
\* a non-string target.
KindMismatch ==
    /\ ScalarTarget.k # "interface"
    /\ \/ SourceValue.k = "boolean" /\ ScalarTarget.k # "bool"
       \/ SourceValue.k = "number" /\ ScalarTarget.k \notin {"int64", "float64"}
       \/ SourceValue.k = "string" /\ ScalarTarget.k # "string"

\* The text of a scalar.
TextOf(lv) ==
    CASE lv.k = "boolean" -> IF lv.b THEN "true" ELSE "false"
      [] OTHER -> L_ToString(lv)

\* The Go value a scalar is.
GoOf(lv) ==
    CASE lv.k = "boolean" -> GBool(lv.b)
      [] lv.k = "number" -> GFloat(lv.n)
      [] lv.k = "string" -> GString(lv.s)

\* C17: a boolean, number or string converted into a non-interface target
\* of another kind returns a ConvError that names the source value and the
\* target type; into an interface target the value converts without error.
C17_MismatchIsConvError ==
    ScalarConverted =>
        /\ KindMismatch =>
              /\ opResult.kind = "returned"
              /\ opResult.err =
                   ConvError("Lua value '" \o TextOf(SourceValue) \o "' ("
                                 \o SourceValue.k \o ")", ScalarTarget)
        /\ ScalarTarget.k = "interface" =>
              /\ opResult = [kind |-> "returned", err |-> "nil"]
              /\ output = Box(GoOf(SourceValue))


-----------------------------------------------------------------------------
(* Claims about struct handles.                                             *)

\* The name is a declared field of the struct behind the handle, by its
\* name or by its 'lua' tag.
NamesField(i) ==
    LET field == HandleStruct.typ.fields[i]
    IN  operands[2] = field.name \/ (field.tag # "" /\ operands[2] = field.tag)

\* C19: an assignment through a struct handle succeeds exactly when the
\* name is a declared field of the struct, by its declared name or by its
\* 'lua' rename, and then sets that field; every other name raises a script
\* error and changes no field.
C19_AssignByNameOrTag ==
    HandleWrite =>
        /\ opResult = Assigned <=> \E i \in DOMAIN HandleStruct.typ.fields : NamesField(i)
        /\ \A i \in DOMAIN HandleStruct.typ.fields :
              NamesField(i) =>
                 FollowPtr(goMem, operands[1].v).f[i] =
                     luaToGoValue(HandleStruct.typ.fields[i].typ, operands[3])
        /\ (\A i \in DOMAIN HandleStruct.typ.fields : ~NamesField(i))
              => opResult.kind = "error" /\ goMem = RecordMem


-----------------------------------------------------------------------------
(* Slice and array proxies indexed by a script, and proxies compared with   *)
(* == (proxy.go).                                                           *)

\* lua_isnumber: a number, or a string that is a numeral.
IsNumber(lv) == lv.k = "number" \/ (lv.k = "string" /\ lv.s \in DOMAIN Numerals)

\* slice__index reading the element at the Lua index itself.
slice__indexZeroBased(mem, px, key) ==
    LET slice == FollowPtr(mem, px.v)
        idx == ToInteger(key)
    IN  IF idx < 0 \/ idx >= ValueLen(slice)
        THEN ScriptError("slice/array get: index out of range")
        ELSE Pushed(GoToLuaTyped(Index(mem, slice, idx + 1)))

\* slice__index: proxy[key].  A string key names a method; the slices and
\* arrays of the scenario have none.
slice__index(mem, px, key) ==
    LET slice == FollowPtr(mem, px.v)
        idx == ToInteger(key)
    IN  IF IsNumber(key)
        THEN IF idx < 1 \/ idx > ValueLen(slice)
             THEN ScriptError("slice/array get: index out of range")
             ELSE Pushed(GoToLuaTyped(Index(mem, slice, idx)))
        ELSE IF key.k = "string"
        THEN ScriptError("no method named '" \o key.s \o "'")
        ELSE ScriptError("slice/array requires integer index")

\* The slice and array proxies a script holds: []int64{1, 2}, its first
\* element alone, and a pointer to [2]int64{1, 2}.
SequenceHandles ==
    {makeValueProxy(IntSlice, "sliceMT"),
     makeValueProxy(GSlice(IntT, IntSlice.a, 1), "sliceMT"),
     makeValueProxy(GPtr(ArrayT(IntT, Len(Ints)), AddrOf("array")), "sliceMT")}

IndexKeys == {LNumber(Small(i)) : i \in -1..(Len(Ints) + 1)} \cup
             {LString("k"), LBool(TRUE)}

\* A script evaluates h[key] on a slice or array proxy h.
ScriptSliceIndex ==
    /\ opc = "ready"
    /\ \E px \in SequenceHandles, key \in IndexKeys :
         /\ operator' = "slice__index"
         /\ operands' = <<px, key>>
         /\ opResult' = slice__index(goMem, px, key)
    /\ opc' = "done"
    /\ UNCHANGED convVars

\* A script executes h[key] = lv on a slice or array proxy h.
ScriptSliceNewIndex ==
    /\ opc = "ready"
    /\ \E px \in SequenceHandles, key \in IndexKeys \ {LBool(TRUE)}, lv \in WriteVals :
         LET r == slice__newindex(goMem, px, key, lv)
         IN  /\ operator' = "slice__newindex"
             /\ operands' = <<px, key, lv>>
             /\ goMem' = r.mem
             /\ opResult' = IF r.err = "nil" THEN Assigned ELSE ScriptError(r.err)
    /\ opc' = "done"
    /\ UNCHANGED <<goMaps, luaTabs, cpc, origin, input, luaVal, target, output, status>>

\* Whether Go's == is defined for the values of a type.
RECURSIVE Comparable(_)
Comparable(t) ==
    CASE t.k \in {"slice", "map", "func"} -> FALSE
      [] t.k = "array" -> Comparable(t.e)
      [] t.k = "struct" -> \A i \in DOMAIN t.fields : Comparable(t.fields[i].typ)
      [] OTHER -> TRUE

\* proxy__eq: v1.Interface() == v2.Interface().  Values of different types
\* are unequal; comparing two values of one uncomparable type panics.
proxy__eq(x, y) ==
    IF TypeOf(x.v) # TypeOf(y.v) THEN Pushed(LBool(FALSE))
    ELSE IF ~Comparable(TypeOf(x.v))
    THEN HostPanic("runtime error: comparing uncomparable type")
    ELSE Pushed(LBool(x.v = y.v))

\* Lua's x == y for two userdata: the same userdata is equal to itself
\* without a metamethod; __eq is called when both have it as the same
\* function, which holds inside one metatable only, each metatable having
\* been given a function object of its own.
LuaEquals(x, y, same) ==
    IF same THEN Pushed(LBool(TRUE))
    ELSE IF x.mt # y.mt THEN Pushed(LBool(FALSE))
    ELSE proxy__eq(x, y)

\* The proxies a script compares.
ComparedHandles ==
    SequenceHandles \cup
    {makeValueProxy(GMap(IntT, 1), "mapMT"),
     makeValueProxy(GMap(SliceT(IntT), 2), "mapMT"),
     makeValueProxy(GPtr(PersonT, AddrOf("person")), "structMT"),
     makeValueProxy(GPtr(HiddenT, AddrOf("hidden")), "structMT"),
     makeValueProxy(Person, "structMT"),
     makeValueProxy(RecordMem[AddrOf("holder")][1], "structMT"),
     makeValueProxy(GChan(IntT, 1), "channelMT"),
     makeValueProxy(GChan(StringT, 1), "channelMT"),
     makeValueProxy([k |-> "int64", t |-> "A", n |-> Small(5)], "numberMT"),
     makeValueProxy([k |-> "int64", t |-> "A", n |-> Small(7)], "numberMT"),
     makeValueProxy([k |-> "int64", t |-> "B", n |-> Small(5)], "numberMT"),
     makeValueProxy([k |-> "string", t |-> "S", s |-> "x"], "stringMT"),
     makeValueProxy(GNull, "interfaceMT")}

\* A script evaluates x == y for two proxies; same tells whether they are
\* one userdata.
ScriptEq ==
    /\ opc = "ready"
    /\ \E x \in ComparedHandles, y \in ComparedHandles, same \in BOOLEAN :
         /\ same => x = y
         /\ operator' = "__eq"
         /\ operands' = <<x, y, same>>
         /\ opResult' = LuaEquals(x, y, same)
    /\ opc' = "done"
    /\ UNCHANGED convVars

\* The order of the strings of the scenario, as Go's < on strings has it.
OrderedStrings == <<"18", "a", "b", "x">>

StringLess(s, t) ==
    \E i, j \in DOMAIN OrderedStrings :
        OrderedStrings[i] = s /\ OrderedStrings[j] = t /\ i < j

\* p < q for two finite float64.
FLess(p, q) == p.num * q.den < q.num * p.den

\* number__lt: the comparison in the common kind of the two operands; for
\* the common kind complex128 the switch has no case, nothing is pushed and
\* the one value returned is the top of the stack, the second operand.
number__lt(x, y) ==
    LET v1 == valueOfProxyOrScalar(x).v
        v2 == valueOfProxyOrScalar(y).v
        kind == commonKind(v1, v2)
    IN  CASE kind \in {"uint64", "int64"} -> Pushed(LBool(IntOf(v1.n) < IntOf(v2.n)))
          [] kind = "float64" ->
                IF valueToNumber(v1).err # "nil" THEN ScriptError(valueToNumber(v1).err)
                ELSE IF valueToNumber(v2).err # "nil" THEN ScriptError(valueToNumber(v2).err)
                ELSE Pushed(LBool(FLess(valueToNumber(v1).q, valueToNumber(v2).q)))
          [] OTHER -> Pushed(y)

string__lt(x, y) ==
    Pushed(LBool(StringLess(valueOfProxyOrScalar(x).v.s, valueOfProxyOrScalar(y).v.s)))

\* The __lt of the metatables of InitProxies: numberMT and stringMT have
\* one, each a function object of its own.
LtEvent(lv) ==
    IF lv.k # "userdata" THEN "nil"
    ELSE CASE lv.mt = "numberMT" -> "number__lt"
           [] lv.mt = "stringMT" -> "string__lt"
           [] OTHER -> "nil"

\* The type name Lua's error messages give a value.
LuaTypeName(lv) == lv.k

OrderError(x, y) ==
    IF LuaTypeName(x) = LuaTypeName(y)
    THEN ScriptError("attempt to compare two " \o LuaTypeName(x) \o " values")
    ELSE ScriptError("attempt to compare " \o LuaTypeName(x) \o " with " \o LuaTypeName(y))

\* Lua's x < y with a proxy among the operands: values of two Lua types
\* cannot be compared; two userdata are compared by __lt when both have it
\* as the same function, and what it returns is taken as a boolean.
LuaLess(x, y) ==
    IF x.k # y.k THEN OrderError(x, y)
    ELSE IF LtEvent(x) = "nil" \/ LtEvent(x) # LtEvent(y) THEN OrderError(x, y)
    ELSE LET r == IF LtEvent(x) = "number__lt" THEN number__lt(x, y)
                  ELSE string__lt(x, y)
         IN  IF r.kind # "value" THEN r
             ELSE Pushed(LBool(~(r.val = LNil \/ r.val = LBool(FALSE))))

\* The operands a script orders: proxies of values of named int, uint,
\* float, string and complex types, and a Lua number and string.
OrderedHandles ==
    {makeValueProxy([k |-> "int64", t |-> "A", n |-> Small(5)], "numberMT"),
     makeValueProxy([k |-> "int64", t |-> "A", n |-> Small(7)], "numberMT"),
     makeValueProxy([k |-> "int64", t |-> "B", n |-> Small(5)], "numberMT"),
     makeValueProxy([k |-> "uint64", t |-> "U", n |-> Small(6)], "numberMT"),
     makeValueProxy([k |-> "float64", t |-> "F", n |-> Small(6)], "numberMT"),
     makeValueProxy([k |-> "float64", t |-> "F", q |-> Frac(11, 2)], "numberMT"),
     makeValueProxy([k |-> "string", t |-> "S", s |-> "a"], "stringMT"),
     makeValueProxy([k |-> "string", t |-> "S", s |-> "b"], "stringMT"),
     makeValueProxy(GComplex(ZT, Frac(1, 1), Frac(2, 1)), "complexMT")}

OrderedOperands == OrderedHandles \cup {LNumber(Small(6)), LString("a")}

\* A script evaluates x < y with a proxy among the operands.
ScriptLt ==
    /\ opc = "ready"
    /\ \E x \in OrderedOperands, y \in OrderedOperands :
         /\ isValueProxy(x) \/ isValueProxy(y)
         /\ operator' = "__lt"
         /\ operands' = <<x, y>>
         /\ opResult' = LuaLess(x, y)
    /\ opc' = "done"
    /\ UNCHANGED convVars

\* The map types with methods: type myMap map[string]int64 with Foo on the
\* pointer, type valMap map[string]int64 with Foo on the value.
NamedMap(name, m) == [k |-> "map", e |-> IntT, m |-> m, t |-> name]

Receivers(v) ==
    IF "t" \notin DOMAIN v THEN <<>>
    ELSE CASE v.t = "myMap" -> [x \in {"Foo"} |-> "pointer"]
           [] v.t = "valMap" -> [x \in {"Foo"} |-> "value"]
           [] OTHER -> <<>>

\* st.MethodByName(name) is valid: on the value for the methods of the
\* value, on a pointer to it for all of them.
MethodByName(v, name, onPointer) ==
    /\ name \in DOMAIN Receivers(v)
    /\ onPointer \/ Receivers(v)[name] = "value"

\* The Go function of a method bound to the map m.
BoundMethod(name, m) == LFunction([k |-> "method", name |-> name, recv |-> m])

\* map__index that resolves the name as a method before it looks at the
\* entries.
map__indexMethodFirst(maps, px, lv) ==
    LET val == px.v
        key == luaToGoValue(StringT, lv)
    IN  IF key.k = "string" /\ MethodByName(val, key.s, TRUE)
        THEN Pushed(BoundMethod(key.s, val.m))
        ELSE IF val.m # 0 /\ key.s \in DOMAIN maps[val.m]
        THEN Pushed(GoToLuaTyped(maps[val.m][key.s]))
        ELSE Pushed(LNil)

\* map__index: proxy[lv].  The entry if the map has the key; else, for a
\* string key, the method of that name (looked up on the value, then on a
\* pointer to a copy of it, which refers to the same map) or nil.
map__index(maps, px, lv) ==
    LET val == px.v
        key == luaToGoValue(StringT, lv)
    IN  IF val.m # 0 /\ key.s \in DOMAIN maps[val.m]
        THEN Pushed(GoToLuaTyped(maps[val.m][key.s]))
        ELSE IF key.k = "string"
        THEN IF MethodByName(val, key.s, FALSE) \/ MethodByName(val, key.s, TRUE)
             THEN Pushed(BoundMethod(key.s, val.m))
             ELSE Pushed(LNil)
        ELSE Pushed(LNil)

\* The map proxies a script holds: a map without methods, maps of the two
\* types with methods, with and without the entry Foo, and a nil map.
MapHandles ==
    {makeValueProxy(GMap(IntT, 1), "mapMT"),
     makeValueProxy(NamedMap("myMap", MapWith("foo")), "mapMT"),
     makeValueProxy(NamedMap("myMap", MapWith("Foo")), "mapMT"),
     makeValueProxy(NamedMap("valMap", MapWith("foo")), "mapMT"),
     makeValueProxy(NamedMap("valMap", MapWith("Foo")), "mapMT"),
     makeValueProxy(NamedMap("myMap", 0), "mapMT")}

MapKeys == {LString("a"), LString("foo"), LString("bar"), LString("Foo"), LString("nope")}

\* A script evaluates h[key] on a map proxy h.
ScriptMapIndex ==
    /\ opc = "ready"
    /\ \E px \in MapHandles, key \in MapKeys :
         /\ operator' = "map__index"
         /\ operands' = <<px, key>>
         /\ opResult' = map__index(goMaps, px, key)
    /\ opc' = "done"
    /\ UNCHANGED convVars

NextHandle == /\ \/ ScriptSliceIndex \/ ScriptSliceNewIndex \/ ScriptEq
                 \/ ScriptLt \/ ScriptMapIndex
              /\ UNCHANGED <<anchorVars, iterVars, proxyVars, funcVars, chanVars>>

SpecHandle == InitRecord /\ [][NextHandle]_vars

-----------------------------------------------------------------------------
(* Claims about indexing and comparing proxies.                             *)

SliceRead == opc = "done" /\ operator = "slice__index" /\ operands[2].k = "number"

SliceWrite == opc = "done" /\ operator = "slice__newindex" /\ operands[2].k = "number"

\* The host sequence behind the proxy, before and after the operation.
SequenceBefore == FollowPtr(RecordMem, operands[1].v)

SequenceAfter == FollowPtr(goMem, operands[1].v)

ElemsOf(mem, seq) == [i \in 1..ValueLen(seq) |-> Index(mem, seq, i)]

IndexGiven == ToInteger(operands[2])

InRange == IndexGiven \in 1..ValueLen(SequenceBefore)

\* C18: a read or write of a slice or array handle at an index outside
\* 1..len raises an index-out-of-range script error and leaves the host
\* sequence as it was; at an index i within 1..len it reads, or writes,
\* exactly the host element i-1 (ElemsOf counts the elements from 1).  The
\* sequences of the scenario are []int64, a reslice of it and *[2]int64.
C18_IndexInRangeOrError ==
    /\ (SliceRead /\ ~InRange) =>
          /\ opResult = ScriptError("slice/array get: index out of range")
          /\ goMem = RecordMem
    /\ (SliceWrite /\ ~InRange) =>
          /\ opResult = ScriptError("slice/array set: index out of range")
          /\ goMem = RecordMem
    /\ (SliceRead /\ InRange) =>
          /\ opResult = Pushed(LNumber(ElemsOf(RecordMem, SequenceBefore)[IndexGiven].n))
          /\ goMem = RecordMem
    /\ (SliceWrite /\ InRange) =>
          /\ opResult = Assigned
          /\ ElemsOf(goMem, SequenceAfter) =
                [ElemsOf(RecordMem, SequenceBefore) EXCEPT
                    ![IndexGiven] = luaToGoValue(IntT, operands[3])]
          /\ \A a \in DOMAIN goMem :
                a \notin {Pointer(operands[1].v)[2]} => goMem[a] = RecordMem[a]

\* A write one past the end of the array behind a pointer handle raised the
\* error and left the array as it was.
C18_Witness ==
    /\ SliceWrite
    /\ SequenceBefore.k = "array"
    /\ IndexGiven = ValueLen(SequenceBefore) + 1
    /\ opResult = ScriptError("slice/array set: index out of range")
    /\ goMem = RecordMem

EqDone == opc = "done" /\ operator = "__eq"

\* C20: == on two handles of any category never raises an error or a host
\* fault: it gives true when the host values behind them are equal and
\* false otherwise, also when they are of different types.
C20_EqNeverFaults ==
    EqDone => opResult = Pushed(LBool(operands[1].v = operands[2].v))

-----------------------------------------------------------------------------
(* Claims about ordering proxies.                                           *)

LtDone == opc = "done" /\ operator = "__lt"

BothHandles == isValueProxy(operands[1]) /\ isValueProxy(operands[2])

\* The kind an operand is promoted to.
PromotedKind(lv) == unsizedKind(valueOfProxyOrScalar(lv).v)

IsBoolean(r) == r.kind = "value" /\ r.val.k = "boolean"

\* C21: x < y on two scalar handles gives a boolean only when the two
\* operands have the same promoted kind; operands of different promoted
\* kinds raise a script error instead of giving a result.
C21_LtSameKindOnly ==
    (LtDone /\ BothHandles) =>
        /\ IsBoolean(opResult) => PromotedKind(operands[1]) = PromotedKind(operands[2])
        /\ PromotedKind(operands[1]) # PromotedKind(operands[2]) => opResult.kind = "error"

-----------------------------------------------------------------------------
(* The table scenario: a script builds a table, possibly with holes and     *)
(* with keys that are no indices, and the host converts it with LuaToGo     *)
(* into an empty interface or into a slice or array it already holds.       *)

SeqTable(arr) == [arr |-> arr, hash |-> <<>>]

MixedTable(arr, keys) == [arr |-> arr, hash |-> [x \in keys |-> LString("v")]]

\* The tables of the scenario, before Lua reports a length for them.
BuiltTables ==
    {NewTable,
     SeqTable(<<LNumber(Small(7))>>),
     SeqTable(<<LNumber(Small(7)), LNumber(Small(8)), LNumber(Small(9))>>),
     SeqTable(<<LNumber(Small(7)), LString("a"), LBool(TRUE)>>),
     SeqTable(<<LNumber(Small(7)), LString("a")>>),
     MixedTable(<<>>, {"x"}),
     MixedTable(<<LNumber(Small(7)), LNumber(Small(8))>>, {"x"}),
     SeqTable(<<LNumber(Small(7)), LNil, LNumber(Small(9))>>),
     MixedTable(<<LNumber(Small(7)), LNil, LNumber(Small(9))>>, {"x"}),
     SeqTable(<<LNil, LNumber(Small(8))>>),
     MixedTable(<<LNil, LNil, LNumber(Small(9))>>, {"x", "y"})}

\* The table with the border n as the length Lua reports.
WithLen(tab, n) == [arr |-> tab.arr, hash |-> tab.hash, len |-> n]

SampleTables == UNION {{WithLen(tab, n) : n \in Borders(tab)} : tab \in BuiltTables}

\* The variables the host converts into: an empty interface, nil slices,
\* the slice IntSlice of two elements, a [2]int64 holding the same, and a
\* nil map.
TableTargets ==
    {[t |-> IfaceT, cur |-> NilIface],
     [t |-> SliceT(IntT), cur |-> GSlice(IntT, 0, 0)],
     [t |-> SliceT(IfaceT), cur |-> GSlice(IfaceT, 0, 0)],
     [t |-> MapT(IfaceT), cur |-> GMap(IfaceT, 0)],
     [t |-> SliceT(IntT), cur |-> IntSlice],
     [t |-> ArrayT(IntT, Len(Ints)), cur |-> GArray(IntT, Ints)]}

\* err := luar.LuaToGo(L, -1, &out) with the table on the stack and out
\* holding cur.
HostLuaToGoTable ==
    /\ opc = "ready"
    /\ \E tab \in SampleTables, tg \in TableTargets :
         LET r == LuaToGo(goMem, goMaps, <<tab>>, LTable(1), tg.t, tg.cur)
         IN  /\ operator' = "LuaToGo table"
             /\ operands' = <<tab, tg.t, tg.cur>>
             /\ luaTabs' = <<tab>>
             /\ goMem' = r.st.mem
             /\ goMaps' = r.st.maps
             /\ output' = r.val
             /\ opResult' = IF r.err = "panic" THEN HostPanic("reflect.Set")
                            ELSE [kind |-> "returned", err |-> r.err]
    /\ opc' = "done"
    /\ UNCHANGED <<cpc, origin, input, luaVal, target, status>>

\* An empty non-nil slice: it points to the zero-size base.
EmptySlice(e) == GSlice(e, AddrOf("zerobase"), 0)

\* Host values with two composites inside: arrays of two empty slices, of
\* two empty maps, of an empty and a filled slice, of the same filled slice
\* twice, and a struct with two empty slices of different types.
PairT == StructT("Pair", <<Field("A", "", TRUE, SliceT(IntT)),
                           Field("B", "", TRUE, SliceT(StringT))>>, FALSE)

PairInputs ==
    {GArray(SliceT(IntT), <<EmptySlice(IntT), EmptySlice(IntT)>>),
     GArray(SliceT(IntT), <<EmptySlice(IntT), IntSlice>>),
     GArray(SliceT(IntT), <<IntSlice, IntSlice>>),
     GArray(SliceT(IntT), <<IntSlice, EmptySlice(IntT)>>),
     GStruct(PairT, <<EmptySlice(IntT), EmptySlice(StringT)>>),
     GStruct(PairT, <<IntSlice, EmptySlice(StringT)>>)}
    \cup {GArray(MapT(IntT), <<GMap(IntT, m1), GMap(IntT, m2)>>) :
            m1 \in EmptyMaps \cup {1}, m2 \in EmptyMaps \cup {1}}

\* luar.GoToLua(L, a) of a value with two composites inside.
HostGoToLuaPair ==
    /\ opc = "ready"
    /\ \E a \in PairInputs :
         LET r == GoToLua(goMem, goMaps, luaTabs, a)
         IN  /\ operator' = "GoToLua"
             /\ operands' = <<a>>
             /\ luaTabs' = r.st.tabs
             /\ opResult' = PushOutcome(r)
    /\ opc' = "done"
    /\ UNCHANGED <<goMem, goMaps, cpc, origin, input, luaVal, target, output, status>>

\* Script tables with two tables inside: two distinct empty tables, an
\* empty and a filled one, the same filled table twice.
PairHeaps ==
    {<<SeqTable(<<LTable(2), LTable(3)>>), NewTable, NewTable>>,
     <<SeqTable(<<LTable(2), LTable(3)>>), NewTable, SeqTable(<<LNumber(Small(7))>>)>>,
     <<SeqTable(<<LTable(2), LTable(3)>>), SeqTable(<<LNumber(Small(7))>>),
       SeqTable(<<LNumber(Small(7))>>)>>,
     <<SeqTable(<<LTable(2), LTable(2)>>), SeqTable(<<LNumber(Small(7))>>)>>,
     <<[arr |-> <<>>, hash |-> [x \in {"a", "b"} |-> IF x = "a" THEN LTable(2) ELSE LTable(3)]],
       NewTable, NewTable>>}

PairTargets == {SliceT(SliceT(IntT)), SliceT(MapT(IntT)), SliceT(IfaceT),
                MapT(MapT(IntT)), MapT(SliceT(IntT)), IfaceT}

\* var out T; err := luar.LuaToGo(L, -1, &out) with the outer table on the
\* stack.
HostLuaToGoPair ==
    /\ opc = "ready"
    /\ \E heap \in PairHeaps, t \in PairTargets :
         LET r == LuaToGo(goMem, goMaps, heap, LTable(1), t, Zero(t))
         IN  /\ operator' = "LuaToGo pair"
             /\ operands' = <<heap, t>>
             /\ luaTabs' = heap
             /\ goMem' = r.st.mem
             /\ goMaps' = r.st.maps
             /\ output' = r.val
             /\ opResult' = IF r.err = "panic" THEN HostPanic("reflect.Set")
                            ELSE [kind |-> "returned", err |-> r.err]
    /\ opc' = "done"
    /\ UNCHANGED <<cpc, origin, input, luaVal, target, status>>

NextTable == /\ HostLuaToGoTable \/ HostGoToLuaPair \/ HostLuaToGoPair
             /\ UNCHANGED <<anchorVars, iterVars, proxyVars, funcVars, chanVars>>

SpecTable == InitRecord /\ [][NextTable]_vars

-----------------------------------------------------------------------------
(* Claims about tables converted into interfaces, slices and arrays.        *)

TableDone == opc = "done" /\ operator = "LuaToGo table"

IntoOpen == TableDone /\ operands[2] = IfaceT

\* The keys of the table converted: its indices and its other keys.
Indices == ArrKeys(operands[1])

OtherKeys == DOMAIN operands[1].hash

\* The keys are exactly 1..N for some N.
IsSequence == OtherKeys = {} /\ Indices = 1..Cardinality(Indices)

\* The dynamic value the interface holds after the call.
Inferred == output.d[1]

\* C22: a table converted into an empty interface gives a []interface{}
\* when its keys are exactly 1..N and a map[string]interface{} otherwise.
C22_SliceIffContiguous ==
    IntoOpen =>
        /\ output.d # <<>>
        /\ IsSequence => Inferred.k = "slice"
        /\ ~IsSequence => Inferred.k = "map"

IntoSequence == TableDone /\ operands[2].k \in {"slice", "array"}

\* The length of the source and the elements of the target after the call.
SourceLen == operands[1].len

ResultLen == ValueLen(output)

ResultElem(i) == Index(goMem, output, i)

\* What the i-th source element converts to, and whether it converts.
ElemConversion(i) ==
    luaToGo([mem |-> RecordMem, maps |-> RecordMaps, tabs |-> luaTabs, vis |-> <<>>],
            operands[1].arr[i], operands[2].e, Zero(operands[2].e))

\* C23: a sequence of N elements converted into a slice or array the host
\* already holds leaves a slice of length N, or an array whose positions
\* past N are zero; each of the first N positions holds the converted
\* source element (the zero value where the element does not convert),
\* never the element the target held before.
C23_TargetReset ==
    IntoSequence =>
        /\ opResult.kind = "returned"
        /\ operands[2].k = "slice" => ResultLen = SourceLen
        /\ \A i \in 1..ResultLen :
              ResultElem(i) = IF i > SourceLen \/ ElemConversion(i).err # "nil"
                              THEN Zero(operands[2].e)
                              ELSE ElemConversion(i).val

-----------------------------------------------------------------------------
(* Claims about indexing map proxies.                                       *)

MapRead == opc = "done" /\ operator = "map__index"

\* The host map behind the proxy, as a function (a nil map has no entry).
HostMap == IF operands[1].v.m = 0 THEN <<>> ELSE RecordMaps[operands[1].v.m]

KeyGiven == operands[2].s

KeyPresent == KeyGiven \in DOMAIN HostMap

TypeHasMethod == KeyGiven \in DOMAIN Receivers(operands[1].v)

\* C24: proxy[key] on a map proxy gives the entry whenever the map has the
\* key, also when the map's type has a method of that name; when the map
\* has no such key it gives the method of that name bound to the map if
\* the type has one, and nil otherwise.  The map is not changed.
C24_EntriesBeforeMethods ==
    MapRead =>
        /\ KeyPresent => opResult = Pushed(LNumber(HostMap[KeyGiven].n))
        /\ (~KeyPresent /\ TypeHasMethod) =>
              opResult = Pushed(BoundMethod(KeyGiven, operands[1].v.m))
        /\ (~KeyPresent /\ ~TypeHasMethod) => opResult = Pushed(LNil)
        /\ goMaps = RecordMaps

\* b.Foo on the myMap {"Foo": 17}, whose type has the method Foo, gave 17.
C24_Witness ==
    /\ MapRead
    /\ KeyPresent
    /\ TypeHasMethod
    /\ operands[1].v.t = "myMap"
    /\ opResult = Pushed(LNumber(Small(17)))

-----------------------------------------------------------------------------
(* Claims about the values a conversion has visited.                         *)

\* The host elements of the sequence handed over, in order, and the table
\* it was copied into.
NestedSeq == IF Reached.k = "array" THEN Reached.elems
             ELSE [i \in 1..Reached.len |-> goMem[Reached.a][i]]

RootTable == luaTabs[opResult.val.id]

\* A sequence of non-nil slices was copied into a table.
SlicesCopied ==
    /\ PushDone
    /\ GotNewTable
    /\ Reached.k \in {"slice", "array"}
    /\ \A i \in DOMAIN NestedSeq : NestedSeq[i].k = "slice" /\ ~isNil(NestedSeq[i])

\* C25: within one GoToLua or GoToLuaProxy call a host composite is
\* converted once, a later visit of the same host value giving the table
\* made for it, and the table given for a visit is the one made for that
\* very host value: two positions of a copied sequence hold the same table
\* exactly when they hold the same host slice, and the table at a position
\* has as many elements as the slice there.
C25_OneTablePerValue ==
    SlicesCopied =>
        /\ Len(RootTable.arr) = Len(NestedSeq)
        /\ \A i, j \in DOMAIN NestedSeq :
              (RootTable.arr[i] = RootTable.arr[j]) <=> (NestedSeq[i] = NestedSeq[j])
        /\ \A i \in DOMAIN NestedSeq :
              /\ RootTable.arr[i].k = "table"
              /\ Len(luaTabs[RootTable.arr[i].id].arr) = NestedSeq[i].len

\* The two host values inside the value handed to GoToLua, and the Lua
\* values stored for them.
PairPushed == /\ opc = "done"
              /\ operator = "GoToLua"
              /\ operands[1] \in PairInputs
              /\ GotNewTable

HostPair == IF operands[1].k = "array" THEN operands[1].elems ELSE operands[1].f

LuaPair == IF operands[1].k = "array" THEN RootTable.arr
           ELSE <<RootTable.hash["A"], RootTable.hash["B"]>>

IsEmptyHost(v) == \/ v.k = "slice" /\ v.len = 0
                  \/ v.k = "map" /\ v.m \in EmptyMaps

\* Two distinct empty composites: two empty slices, or two empty maps that
\* are not one map.
DistinctEmpties(p) ==
    /\ IsEmptyHost(p[1])
    /\ IsEmptyHost(p[2])
    /\ p[1].k = "map" => p[1].m # p[2].m

\* The two tables inside the table handed to LuaToGo, and the host values
\* made for them.
PairConverted == /\ opc = "done"
                 /\ operator = "LuaToGo pair"
                 /\ opResult = [kind |-> "returned", err |-> "nil"]

Unboxed(v) == IF v.k = "interface" /\ v.d # <<>> THEN v.d[1] ELSE v

InnerTables == Stored(operands[1][1])

GoPair ==
    LET out == Unboxed(output)
    IN  CASE out.k = "slice" /\ out.len = 2 ->
                <<Unboxed(goMem[out.a][1]), Unboxed(goMem[out.a][2])>>
          [] out.k = "map" /\ out.m # 0 /\ DOMAIN goMaps[out.m] = {"a", "b"} ->
                <<Unboxed(goMaps[out.m]["a"]), Unboxed(goMaps[out.m]["b"])>>
          [] OTHER -> <<>>

\* Two host values that share nothing: not one map, and not two slices
\* with elements in one backing array.
Independent(v, w) ==
    /\ (v.k = "map" /\ w.k = "map" /\ v.m # 0) => v.m # w.m
    /\ (v.k = "slice" /\ w.k = "slice" /\ v.len > 0 /\ w.len > 0) => v.a # w.a

\* C26: a zero-length composite is never taken for one already visited, in
\* either direction: two distinct empty slices or maps inside a host value
\* become two different tables, and two distinct empty tables inside a
\* table become two host values that share nothing.
C26_EmptiesNotAliased ==
    /\ (PairPushed /\ DistinctEmpties(HostPair)) =>
          /\ LuaPair[1].k = "table"
          /\ LuaPair[2].k = "table"
          /\ LuaPair[1].id # LuaPair[2].id
    /\ (PairConverted /\ Cardinality(InnerTables) = 2 /\ GoPair # <<>>
          /\ \A lv \in InnerTables : luaIsEmpty(operands[1][lv.id])) =>
          Independent(GoPair[1], GoPair[2])

-----------------------------------------------------------------------------
(* The driver loop: proxy.go's GoLua, alone with one script task.  The      *)
(* task is a function that makes channel operations one after the other     *)
(* and may fail; channel_send and channel_recv suspend it with a            *)
(* descriptor, and the goroutine GoLua started performs the operation and   *)
(* resumes it.  Here job holds the steps the task has still to run, pc the  *)
(* driver's position and the last result of Resume, inflight the            *)
(* descriptors yielded so far, performed the channel operations made so     *)
(* far, and got the values of each resumption after a suspension.           *)

\* The most steps a script task makes.
MaxSteps == 2

Channels == {"c1", "c2"}

\* The steps of a script task: c:Send(17), c:Recv(), error("boom").
LoopSteps == {[kind |-> "send", ch |-> c, val |-> LNumber(Small(17))] : c \in Channels}
             \cup {[kind |-> "recv", ch |-> c] : c \in Channels}
             \cup {[kind |-> "fail", msg |-> "boom"]}

Programs == UNION {[1..n -> LoopSteps] : n \in 0..MaxSteps}

\* What ch.Recv() gives: a value a peer sent, or the zero value and false
\* of a closed channel.
Received(t) == {[val |-> Convert(GInt(Small(5)), t), ok |-> TRUE],
                [val |-> Zero(t), ok |-> FALSE]}

\* lua_resume's results.
LuaDone == 0
LuaYield == 1
LuaErrRun == 2

\* LT.Resume: the task runs its next step.  channel_send yields the value,
\* the channel and true; channel_recv the channel and false; an error
\* leaves its message on the stack; with no step left the function returns.
TaskResume(steps) ==
    IF steps = <<>> THEN LuaDone
    ELSE IF steps[1].kind = "fail" THEN LuaErrRun
    ELSE LuaYield

At(at, res) == [at |-> at, res |-> res]

LoopRest ==
    /\ ProxyIdle
    /\ FuncIdle
    /\ luaTabs = <<>>
    /\ goMem = <<>>
    /\ goMaps = <<>>
    /\ luaVal = LNil
    /\ input = Invalid
    /\ target = IfaceT
    /\ output = Invalid
    /\ status = "nil"
    /\ origin = "host"
    /\ cpc = "host"

\* go(f) was called: the goroutine is about to resume the new thread.
InitLoop ==
    /\ LoopRest
    /\ AnchorIdle
    /\ IterIdle
    /\ build = "loop"
    /\ chT \in ChanTypes
    /\ job \in Programs
    /\ pc = At("start", LuaDone)
    /\ inflight = <<>>
    /\ performed = <<>>
    /\ got = <<>>
    /\ operator = "GoLua"
    /\ operands = <<job>>
    /\ opc = "running"
    /\ opResult = <<>>

\* res := LT.Resume(0) before the loop, and res = LT.Resume(n) after an
\* operation: the task gets the results and runs up to its next step.
LoopResume ==
    /\ build = "loop"
    /\ pc.at \in {"start", "performed"}
    /\ pc' = At("test", TaskResume(job))
    /\ got' = IF pc.at = "start" THEN got
              ELSE LET op == performed[Len(performed)]
                   IN  Append(got, IF op.kind = "send" THEN <<>>
                                   ELSE <<GoToLuaTyped(op.val), LBool(op.ok)>>)
    /\ inflight' = IF TaskResume(job) = LuaYield THEN Append(inflight, job[1])
                   ELSE inflight
    /\ UNCHANGED <<build, chT, job, performed, opVars>>

\* for res != 0: the task has returned and the goroutine ends.
LoopExit ==
    /\ build = "loop"
    /\ pc.at = "test"
    /\ pc.res = LuaDone
    /\ pc' = At("ended", pc.res)
    /\ opc' = "done"
    /\ opResult' = [kind |-> "finished"]
    /\ UNCHANGED <<build, chT, job, inflight, performed, got, operator, operands>>

\* if res == 2: RaiseError(LT, emsg) panics in the goroutine, where nothing
\* recovers.
LoopRaise ==
    /\ build = "loop"
    /\ pc.at = "test"
    /\ pc.res = LuaErrRun
    /\ pc' = At("crashed", pc.res)
    /\ opc' = "done"
    /\ opResult' = HostPanic(job[1].msg)
    /\ UNCHANGED <<build, chT, job, inflight, performed, got, operator, operands>>

\* The descriptor is read and ch.Send(val) or ch.Recv() is called, which
\* blocks until a peer is there.
LoopPerform ==
    /\ build = "loop"
    /\ pc.at = "test"
    /\ pc.res = LuaYield
    /\ pc' = At("blocked", pc.res)
    /\ UNCHANGED <<build, chT, job, inflight, performed, got, opVars>>

\* The channel operation completes.
LoopUnblock ==
    /\ build = "loop"
    /\ pc.at = "blocked"
    /\ LET d == inflight[Len(inflight)]
       IN  IF d.kind = "send"
           THEN performed' = Append(performed,
                     [kind |-> "send", ch |-> d.ch, val |-> ValueToSend(chT, d.val)])
           ELSE \E r \in Received(chT) :
                  performed' = Append(performed,
                     [kind |-> "recv", ch |-> d.ch, val |-> r.val, ok |-> r.ok])
    /\ job' = Tail(job)
    /\ pc' = At("performed", pc.res)
    /\ UNCHANGED <<build, chT, inflight, got, opVars>>

NextLoop == /\ \/ LoopResume \/ LoopExit \/ LoopRaise \/ LoopPerform \/ LoopUnblock
            /\ UNCHANGED <<anchorVars, iterVars, convVars, proxyVars, funcVars>>

SpecLoop == InitLoop /\ [][NextLoop]_vars

\* The task the loop drives has failed.
TaskFailed == job # <<>> /\ job[1].kind = "fail" /\ pc.res = LuaErrRun

TaskFinished == job = <<>> /\ pc.res = LuaDone

LoopEnded == pc.at \in {"ended", "crashed"}

\* C27: every suspension of the script task is followed by exactly one
\* operation, of the kind and on the channel of its descriptor, and then by
\* exactly one resumption of the task, with no values after a send and
\* with the received value and the flag after a receive; the loop ends
\* only when the task has finished or failed, and a failure of the task
\* reaches the caller as a script error.
C27_DriverLoop ==
    /\ Len(inflight) - Len(performed) \in {0, 1}
    /\ Len(performed) - Len(got) \in {0, 1}
    /\ \A i \in DOMAIN performed :
          /\ performed[i].kind = inflight[i].kind
          /\ performed[i].ch = inflight[i].ch
    /\ \A i \in DOMAIN got :
          got[i] = IF performed[i].kind = "send" THEN <<>>
                   ELSE <<GoToLuaTyped(performed[i].val), LBool(performed[i].ok)>>
    /\ LoopEnded => (TaskFinished \/ TaskFailed)
    /\ (LoopEnded /\ TaskFinished) => opResult = [kind |-> "finished"]
    /\ (LoopEnded /\ TaskFailed) => opResult = ScriptError(job[1].msg)

-----------------------------------------------------------------------------
(* The handle table: proxy.go's proxyMap and its mutex proxymu.  Several    *)
(* interpreter states, each run by a goroutine of its own, make handles     *)
(* (makeValueProxy) and have them finalized by their collector              *)
(* (proxy__gc).  The table and the mutex belong to the process; the         *)
(* userdata memory of all states is one address space, and the address of   *)
(* a freed userdata may be given out again.                                 *)

\* The userdata addresses the process can give out.
MaxHandles == 3

Addrs == 1..MaxHandles

\* The host values handed to makeValueProxy.
AnchoredValues == {IntSlice, GPtr(IntT, 1)}

FreeBlock == [st |-> "free"]

Block(L, st, val) == [st |-> st, owner |-> L, value |-> val]

Idle == [at |-> "idle"]

Inside(op, at, ptr) == [at |-> at, op |-> op, ptr |-> ptr]

\* proxyMap[ptr] = val
insert(m, ptr, val) ==
    [a \in DOMAIN m \cup {ptr} |-> IF a = ptr THEN val ELSE m[a]]

deleteNothing(m, vp) == m

\* delete(proxyMap, vp)
delete(m, vp) == [a \in DOMAIN m \ {vp} |-> m[a]]

InitAnchor ==
    /\ ChanRest
    /\ ChanIdle
    /\ IterIdle
    /\ proxyMap = <<>>
    /\ proxymu = "free"
    /\ userdata = [a \in Addrs |-> FreeBlock]
    /\ gpc = [L \in States |-> Idle]

\* makeValueProxy: rawptr := L.NewUserdata(...); ptr.value = val;
\* ptr.t = val.Type().
NewUserdata(L) ==
    /\ gpc[L] = Idle
    /\ \E a \in Addrs, val \in AnchoredValues :
          /\ userdata[a] = FreeBlock
          /\ userdata' = [userdata EXCEPT ![a] = Block(L, "new", val)]
          /\ gpc' = [gpc EXCEPT ![L] = Inside("makeValueProxy", "lock", a)]
    /\ UNCHANGED <<proxyMap, proxymu>>

LockBarging(L) ==
    /\ gpc[L] # Idle
    /\ gpc[L].at = "lock"
    /\ proxymu' = L
    /\ gpc' = [gpc EXCEPT ![L].at = "locked"]
    /\ UNCHANGED <<proxyMap, userdata>>

\* proxymu.Lock(): waits until the mutex is free.
Lock(L) ==
    /\ gpc[L] # Idle
    /\ gpc[L].at = "lock"
    /\ proxymu = "free"
    /\ proxymu' = L
    /\ gpc' = [gpc EXCEPT ![L].at = "locked"]
    /\ UNCHANGED <<proxyMap, userdata>>

\* Another state is at its access of the table.
Racing(L) == \E M \in States \ {L} : gpc[M] # Idle /\ gpc[M].at = "locked"

\* proxyMap[ptr] = val in makeValueProxy, delete(proxyMap, vp) in
\* proxy__gc.  Two accesses of a Go map at the same time are a data race:
\* the access may take effect or be lost.
MapAccess(L) ==
    /\ gpc[L] # Idle
    /\ gpc[L].at = "locked"
    /\ LET ptr == gpc[L].ptr
           after == IF gpc[L].op = "makeValueProxy"
                    THEN insert(proxyMap, ptr, userdata[ptr].value)
                    ELSE delete(proxyMap, ptr)
       IN  IF Racing(L) THEN proxyMap' \in {after, proxyMap}
           ELSE proxyMap' = after
    /\ gpc' = [gpc EXCEPT ![L].at = "unlock"]
    /\ UNCHANGED <<proxymu, userdata>>

\* proxymu.Unlock()
Unlock(L) ==
    /\ gpc[L] # Idle
    /\ gpc[L].at = "unlock"
    /\ proxymu' = "free"
    /\ gpc' = [gpc EXCEPT ![L].at = "leave"]
    /\ UNCHANGED <<proxyMap, userdata>>

\* makeValueProxy: L.LGetMetaTable(proxyMT); L.SetMetaTable(-2).  The
\* handle is made: scripts of L hold it.
SetMetaTable(L) ==
    /\ gpc[L] # Idle
    /\ gpc[L].op = "makeValueProxy"
    /\ gpc[L].at = "leave"
    /\ userdata' = [userdata EXCEPT ![gpc[L].ptr].st = "live"]
    /\ gpc' = [gpc EXCEPT ![L] = Idle]
    /\ UNCHANGED <<proxyMap, proxymu>>

\* The collector of L finds a handle no script holds and calls its __gc:
\* vp := (*valueProxy)(L.ToUserdata(1)).
Finalize(L) ==
    /\ gpc[L] = Idle
    /\ \E a \in Addrs :
          /\ userdata[a] # FreeBlock
          /\ userdata[a].owner = L
          /\ userdata[a].st = "live"
          /\ userdata' = [userdata EXCEPT ![a].st = "finalizing"]
          /\ gpc' = [gpc EXCEPT ![L] = Inside("proxy__gc", "lock", a)]
    /\ UNCHANGED <<proxyMap, proxymu>>

\* proxy__gc returns 0 and the collector frees the userdata.
GcReturn(L) ==
    /\ gpc[L] # Idle
    /\ gpc[L].op = "proxy__gc"
    /\ gpc[L].at = "leave"
    /\ userdata' = [userdata EXCEPT ![gpc[L].ptr] = FreeBlock]
    /\ gpc' = [gpc EXCEPT ![L] = Idle]
    /\ UNCHANGED <<proxyMap, proxymu>>

NextAnchor ==
    /\ \/ \E L \in States : NewUserdata(L)
       \/ \E L \in States : Lock(L)
       \/ \E L \in States : MapAccess(L)
       \/ \E L \in States : Unlock(L)
       \/ \E L \in States : SetMetaTable(L)
       \/ \E L \in States : Finalize(L)
       \/ \E L \in States : GcReturn(L)
    /\ UNCHANGED <<convVars, proxyVars, funcVars, chanVars, opVars, iterVars>>

SpecAnchor == InitAnchor /\ [][NextAnchor]_vars

\* The state is at its read, insertion or deletion on proxyMap.
AtTable(L) == L \in DOMAIN gpc /\ gpc[L] # Idle /\ gpc[L].at = "locked"

\* C28: a state that is at its access of proxyMap, an insertion by
\* makeValueProxy or a deletion by proxy__gc, holds proxymu, so no two
\* states are at an access of the table at the same time.
C28_TableUnderMutex ==
    /\ \A L \in DOMAIN gpc : AtTable(L) => proxymu = L
    /\ \A L, M \in DOMAIN gpc : (AtTable(L) /\ AtTable(M)) => L = M

\* One state is about to insert while the other waits to delete.
C28_Witness ==
    \E L, M \in DOMAIN gpc :
        /\ AtTable(L) /\ gpc[L].op = "makeValueProxy"
        /\ gpc[M] # Idle /\ gpc[M].op = "proxy__gc" /\ gpc[M].at = "lock"

\* The handle at address a is made and its finalizer has not yet removed
\* its entry.
Anchored(a) ==
    /\ userdata[a] # FreeBlock
    /\ LET L == userdata[a].owner
       IN  \/ userdata[a].st = "live"
           \/ userdata[a].st = "new" /\ gpc[L].at \in {"unlock", "leave"}
           \/ userdata[a].st = "finalizing" /\ gpc[L].at \in {"lock", "locked"}

Live(a) == userdata[a] # FreeBlock /\ userdata[a].st = "live"

\* C29: the table holds exactly the handles made and not yet finalized,
\* each with the host value its handle holds; the entry of a handle is
\* gone when its finalizer returns, and the table is empty when no
\* userdata is left.
C29_TableIsLiveHandles ==
    /\ DOMAIN proxyMap = {a \in DOMAIN userdata : Anchored(a)}
    /\ \A a \in DOMAIN userdata : Live(a) =>
          (a \in DOMAIN proxyMap /\ proxyMap[a] = userdata[a].value)
    /\ \A L \in DOMAIN gpc :
          (gpc[L] # Idle /\ gpc[L].op = "proxy__gc" /\ gpc[L].at \in {"unlock", "leave"})
              => gpc[L].ptr \notin DOMAIN proxyMap
    /\ (\A a \in DOMAIN userdata : userdata[a] = FreeBlock) => proxyMap = <<>>

\* A finalizer has removed its entry while a handle of the other state is
\* live and still in the table.
C29_Witness ==
    \E L \in DOMAIN gpc, a \in DOMAIN userdata :
        /\ gpc[L] # Idle /\ gpc[L].op = "proxy__gc" /\ gpc[L].at = "leave"
        /\ Live(a) /\ userdata[a].owner # L
        /\ DOMAIN proxyMap = {a}

-----------------------------------------------------------------------------
(* Iteration of a LuaObject: luaobject.go's Iter and LuaTableIter.Next.     *)
(* A host program has a LuaObject for a plain table or for a userdata with  *)
(* a __pairs metamethod, calls Iter once and then Next in a loop            *)
(*     for iter.Next(&key, &value) { ... }                                  *)
(* until Next returns false.  Next works on the Lua stack of the state,     *)
(* which is modelled slot by slot.                                          *)

\* The most key/value pairs of an iterated object.
MaxPairs == 2

IterKeys == {LString("foo"), LString("bar"), LNumber(Small(1))}

IterValues == {LNumber(Small(17)), LString("v")}

\* Sequences of pairs with distinct keys, in the order of traversal.
PairLists ==
    {ps \in UNION {[1..n -> IterKeys \X IterValues] : n \in 0..MaxPairs} :
        \A i, j \in DOMAIN ps : ps[i][1] = ps[j][1] => i = j}

\* The value a LuaObject refers to: a table, or a userdata whose metatable
\* has __pairs.
IterTable == LTable(1)

IterUserdata == [k |-> "userdata", mt |-> "__pairs"]

\* The iterator function __pairs returns; like next it is called with the
\* object and the last key.
IterFunction == LFunction("iterator")

LUA_NOREF == -2

\* The pair after key in the traversal: lua_next, and the iterator of
\* __pairs.  The first pair for nil, <<>> after the last one.
Successor(ps, key) ==
    IF key = LNil
    THEN (IF ps = <<>> THEN <<>> ELSE ps[1])
    ELSE LET i == CHOOSE i \in DOMAIN ps : ps[i][1] = key
         IN  IF i = Len(ps) THEN <<>> ELSE ps[i + 1]

Top(s, n) == s[Len(s) + 1 - n]

Pop(s, n) == SubSeq(s, 1, Len(s) - n)

\* The types of the variables behind the key and value arguments of Next;
\* "nil" is a nil value argument.
KeyTargets == {IfaceT, StringT}

ValueTargets == {IfaceT, IntT, [k |-> "nil"]}

InitIter ==
    /\ ChanRest
    /\ ChanIdle
    /\ AnchorIdle
    /\ lo \in {[ref |-> v, pairs |-> ps] : v \in {IterTable, IterUserdata}, ps \in PairLists}
    /\ targets \in [key : KeyTargets, value : ValueTargets]
    /\ luaStack \in {<<>>, <<lo.ref>>}
    /\ ti = <<>>
    /\ delivered = <<>>
    /\ iterc = "start"

\* lo.Iter(): for a table the iterator has no reference; otherwise
\* __pairs(lo) is called and its first result kept in the registry.  The
\* stack is left as it was.
Iter ==
    /\ iterc = "start"
    /\ ti' = [first |-> TRUE,
              ref |-> IF lo.ref.k = "table" THEN LUA_NOREF ELSE 1,
              err |-> "nil"]
    /\ iterc' = "loop"
    /\ UNCHANGED <<lo, targets, luaStack, delivered>>

\* LuaToGo(L, -2, key) and, for a non-nil value argument, LuaToGo(L, -1,
\* value) on a stack that ends with a key and a value.
ConvertPair(s) ==
    LET c == [x \in {"key", "value"} |->
                 IF targets[x].k = "nil" THEN [val |-> Invalid, err |-> "nil"]
                 ELSE LuaToGo(<<>>, <<>>, <<>>, Top(s, IF x = "key" THEN 2 ELSE 1),
                              targets[x], Zero(targets[x]))]
    IN  [key |-> c["key"].val, value |-> c["value"].val,
         err |-> IF c["key"].err # "nil" THEN c["key"].err ELSE c["value"].err]

\* How the first part of Next leaves the stack: with a key and a value on
\* top, at the end of the traversal, after a failed call, or not at all.
StackLeft(kind, s) == [kind |-> kind, stack |-> s]

\* ti.ref == LUA_NOREF: the first call pushes the table and nil;
\* L.Next(-2) replaces the key on top by the next key and its value.
NextOfTable ==
    LET s1 == IF ti.first THEN luaStack \o <<lo.ref, LNil>> ELSE luaStack
        nx == Successor(lo.pairs, Top(s1, 1))
    IN  IF nx = <<>> THEN {StackLeft("end", Pop(s1, 1))}
        ELSE {StackLeft("pair", Pop(s1, 1) \o <<nx[1], nx[2]>>)}

\* Otherwise: the iterator is pushed from the registry, on the first call
\* followed by the object and nil, and L.Call(2, 2) calls the value two
\* slots below the top with the two values above it.  With fewer than
\* three slots the call reads below the stack: it may fail or end the
\* program.
NextOfPairs ==
    LET s1 == luaStack \o <<IterFunction>>
        s2 == IF ti.first THEN s1 \o <<lo.ref, LNil>> ELSE s1
    IN  IF Len(s2) < 3
        THEN {StackLeft("error", <<>>), StackLeft("crash", s2)}
        ELSE IF Top(s2, 3) # IterFunction
        THEN {StackLeft("error", Pop(s2, 3) \o <<LString("attempt to call")>>)}
        ELSE LET nx == Successor(lo.pairs, Top(s2, 1))
             IN  IF nx = <<>> THEN {StackLeft("end", Pop(s2, 3) \o <<LNil, LNil>>)}
                 ELSE {StackLeft("pair", Pop(s2, 3) \o <<nx[1], nx[2]>>)}

\* iter.Next(&key, &value), called while the last call returned true.  With
\* a key and a value on the stack both are converted and L.Pop(1) leaves
\* the key on top; Next returns false at the end of the traversal, and
\* with ti.err set after a failed call or a failed conversion.
Next ==
    /\ iterc = "loop"
    /\ \E r \in (IF ti.ref = LUA_NOREF THEN NextOfTable ELSE NextOfPairs) :
         LET c == IF r.kind = "pair" THEN ConvertPair(r.stack)
                  ELSE [err |-> IF r.kind = "end" THEN "nil" ELSE "LuaError"]
             more == r.kind = "pair" /\ c.err = "nil"
         IN  /\ iterc' = IF r.kind = "crash" THEN "crashed"
                         ELSE IF more THEN "loop" ELSE "done"
             /\ ti' = IF r.kind = "crash" THEN ti
                      ELSE [ti EXCEPT !.first = FALSE, !.err = c.err]
             /\ luaStack' = IF more THEN Pop(r.stack, 1) ELSE r.stack
             /\ delivered' = IF more
                             THEN Append(delivered,
                                    [lua |-> <<Top(r.stack, 2), Top(r.stack, 1)>>,
                                     key |-> c.key, value |-> c.value])
                             ELSE delivered
    /\ UNCHANGED <<lo, targets>>

NextIter == /\ Iter \/ Next
            /\ UNCHANGED <<convVars, proxyVars, funcVars, chanVars, opVars, anchorVars>>

SpecIter == InitIter /\ [][NextIter]_vars

\* The loop over Next is over.
IterOver == iterc \in {"done", "crashed"}

\* C30: when the loop over Next ends, Next has returned false, as many
\* calls of Next have returned true as the object has pairs, and the pairs
\* delivered are the pairs of the object, each one once, for a plain table
\* and for an object with __pairs.
C30_EachPairOnce ==
    IterOver =>
        /\ iterc = "done"
        /\ Len(delivered) = Len(lo.pairs)
        /\ \A i \in DOMAIN delivered : delivered[i].lua = lo.pairs[i]

=============================================================================
